---------------------------- MODULE Spec2Model ----------------------------
(***************************************************************************)
(* BankForks (runtime/src/bank_forks.rs): the map from slot to checkpoint, *)
(* the root pointer, the ancestors/descendants queries, insert, remove and *)
(* the root advance set_root with its accounts-hash scan, snapshot         *)
(* hand-off and pruning.                                                   *)
(*                                                                         *)
(* A checkpoint (Bank) is identified by its ancestor set: the slots on its *)
(* chain down to genesis, its own slot (the highest) included.  Its parent *)
(* is the checkpoint with that slot taken away, its block height the       *)
(* length of the chain.  The map holds shared handles, so a checkpoint     *)
(* dropped from the map stays alive as long as a checkpoint of the map     *)
(* reaches it through parent links; squash cuts the parent link.           *)
(*                                                                         *)
(* EthPool (evm-utils/evm-bridge/src/pool.rs): the bridge's pool of        *)
(* pending transactions, ordered per sender by nonce and replaced at a     *)
(* higher gas price, and the worker_deploy loop that takes the first       *)
(* pending transaction, deploys it and removes it from the pool.  The      *)
(* pool's lock is released between the worker's calls, so imports          *)
(* interleave with them.                                                   *)
(*                                                                         *)
(* The leader schedule's stakers (ledger/src/leader_schedule_utils.rs):    *)
(* sort_stakes and retain_sort_stakers as operators on vectors of          *)
(* (pubkey, stake) pairs.                                                  *)
(*                                                                         *)
(* The block recovery tool (evm-utils/evm-block-recovery/src/routines):    *)
(* repeat_evm and repeat_native, a reader loop that sends the blocks it    *)
(* reads over a bounded channel to a writer task.  Block numbers keep      *)
(* their width, MaxBlock standing for the largest, and a build either      *)
(* checks arithmetic overflow or wraps.                                    *)
(***************************************************************************)
EXTENDS Integers, Sequences, FiniteSets, TLC

\* ------------------------------------------------------------------ bounds
MaxSlot == 2
MaxHeads == 2

\* accounts_hash_interval_slots defaults to u64::MAX ("never").  The model's
\* integers are 32 bits wide, so the default is the largest of them: like
\* u64::MAX it exceeds every block height, which is all the scan reads of it.
NeverInterval == 2147483647

Slots == 0..MaxSlot
\* Option<Slot>::None
None == -1
OptSlots == Slots \cup {None}
\* values given to set_accounts_hash_interval_slots
Intervals == {0, 1, 2, NeverInterval}

NoPanic == "none"
SnapshotOutcomes == {"ok", "write_failed", "send_failed"}

VARIABLES
    banks,                        \* BankForks.banks: slot -> checkpoint
    root,                         \* BankForks.root
    snapshot_config,              \* BankForks.snapshot_config.is_some()
    last_snapshot_slot,
    accounts_hash_interval_slots,
    last_accounts_hash_slot,
    squashed,                     \* the live checkpoints that were squashed
    frozen,                       \* the live checkpoints that are frozen
    panicked,                     \* NoPanic, or the fatal error that ended the run
    lastCall,                     \* the call that produced this state, and what it did
    snapshot_failed,              \* history kept under SpecSnapshots: the slots
                                  \* whose snapshot failed
    pc,                           \* where a set_root call run step by step is
    frame,                        \* the arguments and locals of that call
    pool,                         \* EthPool.pool: sender -> its transactions
    worker,                       \* worker_deploy: where it is, and its locals
    hash_senders,                 \* the hash_sender channel of each transaction
                                  \* submitted: how many results were sent on it
    copier                        \* a run of repeat_evm or repeat_native: its
                                  \* arguments, its reader loop, the channel and
                                  \* the writer task

\* the state of the transaction pool of the EVM bridge (evm-bridge/src/pool.rs)
poolVars == <<pool, worker, hash_senders>>

\* the state of a run of the block recovery tool (evm-block-recovery)
copyVars == <<copier>>

vars == <<banks, root, snapshot_config, last_snapshot_slot,
          accounts_hash_interval_slots, last_accounts_hash_slot, squashed,
          frozen, panicked, lastCall, snapshot_failed, pc, frame, poolVars, copyVars>>

\* no set_root call is running
NoFrame ==
    [new_root |-> None, sender |-> FALSE, hcr |-> None, outcome |-> "ok",
     todo |-> <<>>, is_root_bank_squashed |-> FALSE, whole |-> <<>>]

\* the fields of BankForks and of a running set_root call
bankVars == <<banks, root, snapshot_config, last_snapshot_slot,
              accounts_hash_interval_slots, last_accounts_hash_slot, squashed,
              frozen, snapshot_failed, pc, frame>>

\* ------------------------------------------------------- pooled transactions
\* the nonce is a U256: MaxNonce stands for U256::MAX, the nonce to which
\* nothing can be added
MaxNonce == 1
MaxPrice == 3

Senders == {"a", "b"}
Nonces == 0..MaxNonce
Prices == 1..MaxPrice
Inputs == {"x", "y"}

\* PooledTransaction: the signed transaction's sender, nonce, gas price and
\* input.  Its hash (tx_id_hash) is one-to-one on these, so the transaction
\* stands for its own hash.
PooledTransactions ==
    [sender : Senders, nonce : Nonces, gas_price : Prices, input : Inputs]

\* EthPool::new: no transaction of any sender
EmptyPool == [s \in Senders |-> <<>>]

\* worker_deploy at the top of its loop
NoWork == [pc |-> "poll", tx |-> {}, outcome |-> "none", sends |-> 0, found |-> {}]

\* ------------------------------------------------------------- checkpoints
Max(S) == CHOOSE x \in S : \A y \in S : y <= x

\* every checkpoint there can be: a chain of slots starting at genesis
Checkpoints == {{0} \cup S : S \in SUBSET (Slots \ {0})}

\* Bank::slot
SlotOf(b) == Max(b)

\* Bank::block_height: one more than the parent's, 0 at genesis
BlockHeight(b) == Cardinality(b) - 1

\* Bank::new_from_parent
NewFromParent(parent, slot) == parent \cup {slot}

\* the checkpoint a checkpoint was created from
ParentOf(b) == b \ {SlotOf(b)}

\* Bank::parents under the squashes sq: the chain of parent links, nearest
\* first; a squashed checkpoint has no parent link any more
RECURSIVE Parents(_, _)
Parents(sq, b) ==
    IF b \in sq \/ Cardinality(b) = 1 THEN <<>>
    ELSE <<ParentOf(b)>> \o Parents(sq, ParentOf(b))

Range(f) == {f[i] : i \in DOMAIN f}

\* the checkpoints alive under map m and squashes sq: those of the map and
\* those their parent links reach
Alive(m, sq) == UNION {{m[s]} \cup Range(Parents(sq, m[s])) : s \in DOMAIN m}

\* ------------------------------------------------------------------ queries
Keys == DOMAIN banks

\* BankForks::ancestors
ancestors ==
    [s \in Keys |-> {k \in banks[s] : k >= root} \ {SlotOf(banks[s])}]

\* descendants() without the entry for the checkpoint's own slot
OwnEntryLeftOut(s) == {}

\* the entry descendants() makes for a checkpoint's own slot
OwnEntry(s) == {s}

\* BankForks::descendants
descendants ==
    LET own == UNION {OwnEntry(SlotOf(banks[s])) : s \in Keys}
        parents == UNION {banks[s] \ {SlotOf(banks[s])} : s \in Keys}
    IN [p \in own \cup parents |->
            {SlotOf(banks[k]) : k \in {k \in Keys : p \in banks[k] \ {SlotOf(banks[k])}}}]

\* the slot of the stored checkpoint with the greatest block height, the
\* lowest such slot when several have it
HighestByBlockHeight ==
    CHOOSE s \in Keys :
        \A k \in Keys :
            \/ BlockHeight(banks[k]) < BlockHeight(banks[s])
            \/ BlockHeight(banks[k]) = BlockHeight(banks[s]) /\ s <= k

\* BankForks::highest_slot
highest_slot == Max(Keys)

\* BankForks::working_bank
working_bank == banks[highest_slot]

\* ------------------------------------------------------------ construction
\* new_from_banks storing the heads without walking their parents
InsertParentsSkipped(m, ps) == m

\* new_from_banks storing only the nearest parent of each head
InsertParentsNearestOnly(m, ps) ==
    IF ps = <<>> THEN m ELSE (SlotOf(Head(ps)) :> Head(ps)) @@ m

\* the walk over a head's parents in new_from_banks: stop at the first slot
\* that is already a key
RECURSIVE InsertParents(_, _)
InsertParents(m, ps) ==
    IF ps = <<>> THEN m
    ELSE IF SlotOf(Head(ps)) \in DOMAIN m THEN m
    ELSE InsertParents((SlotOf(Head(ps)) :> Head(ps)) @@ m, Tail(ps))

\* BankForks::new_from_banks: the map built from the heads, in order
RECURSIVE NewFromBanks(_, _)
NewFromBanks(m, heads) ==
    IF heads = <<>> THEN m
    ELSE LET h == Head(heads)
             withHead == (SlotOf(h) :> h) @@ m
         IN NewFromBanks(InsertParents(withHead, Parents({}, h)), Tail(heads))

\* two checkpoints of one ledger: a slot on both chains has the same chain
SameLedger(b, c) ==
    \A s \in b \cap c : {k \in b : k <= s} = {k \in c : k <= s}

\* the heads given to new_from_banks: checkpoints of one ledger
HeadSeqs ==
    {h \in UNION {[1..n -> Checkpoints] : n \in 1..MaxHeads} :
        \A i, j \in DOMAIN h : SameLedger(h[i], h[j])}

\* what a call did, kept for the properties that speak about one call
Call(op) ==
    [op |-> op, eligible |-> {}, due |-> {}, squashed |-> {}, hashed |-> {},
     snapshot |-> "none", sent |-> {}, pruned |-> {}, heads |-> <<>>,
     asked |-> None, found |-> {}, result |-> <<>>]

\* ------------------------------------------------------- block recovery
\* block numbers and slots are u64: MaxBlock stands for u64::MAX, the number
\* to which nothing can be added
MaxBlock == 3
Blocks == 0..MaxBlock
\* the capacity of the channel between the reader and the writer task
CHANNEL_MAX_MESSAGES == 300

\* a run of repeat_evm(first, second) or repeat_native(first, second) about
\* to start.  listing: what the source's get_confirmed_blocks answers;
\* checks: whether the build checks integer overflow (it then ends the run
\* with a fatal error where the other build wraps around)
Run(routine, first, second, listing, checks) ==
    [routine |-> routine, checks |-> checks, first |-> first, second |-> second,
     listing |-> listing,
     pc |-> "begin",        \* where the routine is
     todo |-> <<>>,         \* the block numbers the loop has yet to read
     block |-> {},          \* the block read and not yet sent
     channel |-> <<>>,      \* the messages sent and not yet received
     sender |-> "none",     \* the sending half: none, open or dropped
     writer |-> "none",     \* the writer task: none, recv, upload or ended
     uploading |-> {},      \* the message the writer is uploading
     attempts |-> <<>>,     \* the block numbers whose upload was attempted
     failed |-> <<>>,       \* those whose upload returned an error
     read_ok |-> <<>>,      \* the block numbers read from the source
     read_err |-> <<>>,     \* those whose read returned an error
     result |-> "none"]     \* what the routine returned: Ok, Err or panic

\* no run of the tool
NoCopy == Run("none", 0, 0, <<>>, FALSE)

\* the checkpoints of S a child was created from: Bank::new_from_parent
\* freezes the parent (the test at bank_forks.rs:445-453 finds slot 0 frozen
\* once its child exists)
HaveChild(S) == {b \in S : \E c \in S : c # b /\ ParentOf(c) = b}

\* the fields of the BankForks new_from_banks(heads, r) returns
NewFields(heads, r) ==
    /\ banks = NewFromBanks(<<>>, heads)
    /\ root = r
    /\ snapshot_config = FALSE
    /\ last_snapshot_slot = r
    /\ accounts_hash_interval_slots = NeverInterval
    /\ last_accounts_hash_slot = r
    /\ squashed = {}
    /\ panicked = NoPanic
    /\ lastCall = [Call("new_from_banks") EXCEPT !.heads = heads]
    /\ snapshot_failed = {}
    /\ pc = "idle"
    /\ frame = NoFrame
    /\ pool = EmptyPool
    /\ worker = NoWork
    /\ hash_senders = <<>>
    /\ copier = NoCopy

\* the state new_from_banks(heads, r) returns, the checkpoints with a child
\* frozen and the others still being replayed
NewState(heads, r) ==
    /\ NewFields(heads, r)
    /\ frozen = HaveChild(Alive(banks, {}))

Init == \E heads \in HeadSeqs : \E r \in Slots : NewState(heads, r)

\* ---------------------------------------------------------------- mutation
\* the squashes left once the checkpoints nothing reaches are released
Release(m, sq) == sq \cap Alive(m, sq)

\* BankForks::insert of a checkpoint created from the one stored at
\* parentSlot.  HashMap::insert stores the new checkpoint before the
\* assertion looks at the previous one.  The checkpoint is a new one: the
\* driver does not replay the chain of a checkpoint that is still alive.
Insert(parentSlot, slot) ==
    /\ panicked = NoPanic
    /\ parentSlot \in Keys
    /\ slot > SlotOf(banks[parentSlot])
    /\ NewFromParent(banks[parentSlot], slot) \notin Alive(banks, squashed)
    /\ banks' = (slot :> NewFromParent(banks[parentSlot], slot)) @@ banks
    /\ squashed' = Release(banks', squashed)
    /\ frozen' = (frozen \cup {banks[parentSlot]}) \cap Alive(banks', squashed')
    /\ panicked' = IF slot \in Keys THEN "duplicate insert" ELSE NoPanic
    /\ lastCall' = Call("insert")
    /\ UNCHANGED <<snapshot_failed, pc, frame, poolVars, copyVars>>
    /\ UNCHANGED <<root, snapshot_config, last_snapshot_slot,
                   accounts_hash_interval_slots, last_accounts_hash_slot>>

\* remove taking the checkpoints built on the removed one out with it
RemovePostWithDescendants(slot) ==
    [banks |-> [s \in {k \in Keys : slot \notin banks[k]} |-> banks[s]],
     removed |-> IF slot \in Keys THEN {banks[slot]} ELSE {}]

\* HashMap::remove in BankForks::remove: the map it leaves and the Option it
\* returns, as a set (empty for None)
RemovePost(slot) ==
    [banks |-> [s \in Keys \ {slot} |-> banks[s]],
     removed |-> IF slot \in Keys THEN {banks[slot]} ELSE {}]

\* BankForks::remove
Remove(slot) ==
    /\ panicked = NoPanic
    /\ banks' = RemovePost(slot).banks
    /\ squashed' = Release(banks', squashed)
    /\ frozen' = frozen \cap Alive(banks', squashed')
    /\ lastCall' = Call("remove")
    /\ UNCHANGED <<snapshot_failed, pc, frame, poolVars, copyVars>>
    /\ UNCHANGED <<root, snapshot_config, last_snapshot_slot,
                   accounts_hash_interval_slots, last_accounts_hash_slot, panicked>>

\* BankForks::set_snapshot_config
SetSnapshotConfig(c) ==
    /\ panicked = NoPanic
    /\ snapshot_config' = c
    /\ lastCall' = Call("set_snapshot_config")
    /\ UNCHANGED <<frozen, snapshot_failed, pc, frame, poolVars, copyVars>>
    /\ UNCHANGED <<banks, root, last_snapshot_slot, accounts_hash_interval_slots,
                   last_accounts_hash_slot, squashed, panicked>>

\* BankForks::set_accounts_hash_interval_slots
SetAccountsHashIntervalSlots(n) ==
    /\ panicked = NoPanic
    /\ accounts_hash_interval_slots' = n
    /\ lastCall' = Call("set_accounts_hash_interval_slots")
    /\ UNCHANGED <<frozen, snapshot_failed, pc, frame, poolVars, copyVars>>
    /\ UNCHANGED <<banks, root, snapshot_config, last_snapshot_slot,
                   last_accounts_hash_slot, squashed, panicked>>

\* the lookup of a slot through the Index implementation, which fails on a
\* slot that is no key
GetByIndex(bank_slot) ==
    [found |-> IF bank_slot \in Keys THEN {banks[bank_slot]} ELSE {},
     fatal |-> bank_slot \notin Keys]

\* BankForks::get: the Option it returns, as a set (empty for None); it has
\* no failing path
Get(bank_slot) ==
    [found |-> IF bank_slot \in Keys THEN {banks[bank_slot]} ELSE {},
     fatal |-> FALSE]

\* a call of get(bank_slot) by the owner of the BankForks
GetCall(bank_slot) ==
    /\ panicked = NoPanic
    /\ \E res \in {Get(bank_slot)} :
          /\ panicked' = IF res.fatal THEN "get of a missing slot" ELSE NoPanic
          /\ lastCall' = [Call("get") EXCEPT !.asked = bank_slot, !.found = res.found]
    /\ UNCHANGED <<banks, root, snapshot_config, last_snapshot_slot,
                   accounts_hash_interval_slots, last_accounts_hash_slot, squashed,
                   frozen, snapshot_failed, pc, frame, poolVars, copyVars>>

\* Bank::is_frozen
is_frozen(b) == b \in frozen

\* BankForks::frozen_banks
frozen_banks == [s \in {k \in Keys : is_frozen(banks[k])} |-> banks[s]]

\* active_banks() taking for active the checkpoints without a stored child
ActiveBanksAreLeaves ==
    {k \in Keys : ~\E c \in Keys : c # k /\ ParentOf(banks[c]) = banks[k]}

\* BankForks::active_banks: the slots it collects.  The vector lists them in
\* the iteration order of the map, which is the same as long as the map is.
active_banks == {k \in Keys : ~is_frozen(banks[k])}

\* the queries that take no argument
Queries ==
    {"ancestors", "descendants", "frozen_banks", "active_banks", "root_bank",
     "root", "highest_slot", "working_bank"}

\* a query that takes its entries out of the map as it reads them
QueryPostDraining(q) ==
    [banks |-> IF q = "frozen_banks" THEN [s \in active_banks |-> banks[s]] ELSE banks,
     value |-> IF q = "frozen_banks" THEN frozen_banks ELSE <<>>,
     fatal |-> FALSE]

\* what a query returns and the map it leaves.  Every query borrows the
\* BankForks shared (&self).  root_bank indexes the map with root and
\* highest_slot unwraps the maximum: the first fails when root is no key, the
\* second (and working_bank through it) when the map is empty.
QueryPost(q) ==
    [banks |-> banks,
     value |->
        CASE q = "ancestors" -> ancestors
          [] q = "descendants" -> descendants
          [] q = "frozen_banks" -> frozen_banks
          [] q = "active_banks" -> active_banks
          [] q = "root_bank" -> IF root \in Keys THEN banks[root] ELSE {}
          [] q = "root" -> root
          [] q = "highest_slot" -> IF Keys # {} THEN highest_slot ELSE None
          [] q = "working_bank" -> IF Keys # {} THEN working_bank ELSE {},
     fatal |->
        \/ q = "root_bank" /\ root \notin Keys
        \/ q \in {"highest_slot", "working_bank"} /\ Keys = {}]

\* a call of one of the queries by the owner of the BankForks
QueryCall(q) ==
    /\ panicked = NoPanic
    /\ \E post \in {QueryPost(q)} :
          /\ banks' = post.banks
          /\ panicked' = IF post.fatal THEN "query of a missing slot" ELSE NoPanic
          /\ lastCall' = [Call(q) EXCEPT !.result = post.value]
    /\ squashed' = Release(banks', squashed)
    /\ frozen' = frozen \cap Alive(banks', squashed')
    /\ UNCHANGED <<root, snapshot_config, last_snapshot_slot,
                   accounts_hash_interval_slots, last_accounts_hash_slot,
                   snapshot_failed, pc, frame, poolVars, copyVars>>

\* Bank::freeze of a stored checkpoint: the replay of its slot is complete
Freeze(slot) ==
    /\ panicked = NoPanic
    /\ slot \in Keys
    /\ ~is_frozen(banks[slot])
    /\ frozen' = frozen \cup {banks[slot]}
    /\ lastCall' = Call("freeze")
    /\ UNCHANGED <<banks, root, snapshot_config, last_snapshot_slot,
                   accounts_hash_interval_slots, last_accounts_hash_slot, squashed,
                   panicked, snapshot_failed, pc, frame, poolVars, copyVars>>

\* ------------------------------------------------------------ root advance
\* the scan list of set_root with the oldest parent first, the new root last
CandidatesOldestFirst(rb) ==
    LET s == <<rb>> \o Parents(squashed, rb)
    IN [i \in 1..Len(s) |-> s[Len(s) + 1 - i]]

\* the scan list of set_root: the new root's checkpoint, then its parents
Candidates(rb) == <<rb>> \o Parents(squashed, rb)

\* the cadence test without the comparison with last_accounts_hash_slot
IsDueWithoutHighWater(b) ==
    BlockHeight(b) % accounts_hash_interval_slots = 0

\* the cadence test taking a slot equal to last_accounts_hash_slot as new
IsDueFromHighWater(b) ==
    /\ BlockHeight(b) % accounts_hash_interval_slots = 0
    /\ SlotOf(b) >= last_accounts_hash_slot

\* the cadence test of the scan
IsDue(b) ==
    /\ BlockHeight(b) % accounts_hash_interval_slots = 0
    /\ SlotOf(b) > last_accounts_hash_slot

\* the first candidate that is due, as a set: empty when none is.  The loop
\* breaks at it.
RECURSIVE FirstDue(_)
FirstDue(cands) ==
    IF cands = <<>> THEN {}
    ELSE IF IsDue(Head(cands)) THEN {Head(cands)}
    ELSE FirstDue(Tail(cands))

\* set_root without the squash of the new root after the scan
SquashedByScanOnly(due, rb) == due

\* the checkpoints set_root squashes: the due one, and the new root's unless
\* the due one sits at the new root's slot
SquashedBy(due, rb) ==
    IF \E d \in due : SlotOf(d) = SlotOf(rb) THEN due ELSE due \cup {rb}

\* prune_non_root without the clause that keeps the root itself
RetainsWithoutRoot(d, slot, r, hcr) ==
    \/ slot \in d[r]
    \/ /\ slot < r
       /\ slot >= (IF hcr = None THEN r ELSE hcr)
       /\ r \in d[slot]

\* the retain predicate of prune_non_root over the descendants map d
Retains(d, slot, r, hcr) ==
    \/ slot = r
    \/ slot \in d[r]
    \/ /\ slot < r
       /\ slot >= (IF hcr = None THEN r ELSE hcr)
       /\ r \in d[slot]

\* prune_non_root indexes descendants[&root] and descendants[slot]: whether
\* one of the lookups it makes has no entry
PruneMissesEntry(r, hcr) ==
    LET d == descendants
    IN \E slot \in Keys :
        /\ slot # r
        /\ \/ r \notin DOMAIN d
           \/ /\ slot \notin d[r]
              /\ slot < r
              /\ slot >= (IF hcr = None THEN r ELSE hcr)
              /\ slot \notin DOMAIN d

\* prune_non_root keeping the whole chain below the root, confirmed or not
PruneNonRootKeepingChain(r, hcr) ==
    LET d == descendants
    IN [s \in {k \in Keys : Retains(d, k, r, IF hcr = None THEN None ELSE 0)} |-> banks[s]]

\* BankForks::prune_non_root
PruneNonRoot(r, hcr) ==
    LET d == descendants
    IN [s \in {k \in Keys : Retains(d, k, r, hcr)} |-> banks[s]]

\* self.banks.get(&root) in set_root: the checkpoint stored at the new
\* root's slot with the highest stored checkpoint standing in for a missing one
RootBankOrHighest(new_root) ==
    IF new_root \in Keys THEN {banks[new_root]} ELSE {banks[highest_slot]}

\* self.banks.get(&root) in set_root, as a set: empty when the slot is no key
RootBank(new_root) ==
    IF new_root \in Keys THEN {banks[new_root]} ELSE {}

\* a snapshot attempted for a due checkpoint whenever a sender is given
AttemptsWithoutConfig(due, sender) == due # {} /\ sender

\* whether set_root runs generate_accounts_package for the due checkpoint
Attempts(due, sender) == due # {} /\ snapshot_config /\ sender

\* last_snapshot_slot set whatever generate_accounts_package returned
RecordedWhateverTheResult(due, attempt, outcome) ==
    IF attempt THEN due ELSE {}

\* the checkpoint whose slot becomes last_snapshot_slot: the due one when
\* generate_accounts_package ran and returned Ok
Recorded(due, attempt, outcome) ==
    IF attempt /\ outcome = "ok" THEN due ELSE {}

\* last_accounts_hash_slot moved only once the package has been sent
HashMarkOnSuccess(due, sent) ==
    IF sent = {} THEN last_accounts_hash_slot ELSE SlotOf(CHOOSE d \in sent : TRUE)

\* last_accounts_hash_slot after the scan: the due checkpoint's slot, set
\* before the snapshot is attempted
HashMark(due, sent) ==
    IF due = {} THEN last_accounts_hash_slot ELSE SlotOf(CHOOSE d \in due : TRUE)

\* the values set_root leaves in the fields it writes.  sender: whether a
\* package sender is given; outcome: what generate_accounts_package meets when
\* it runs.
SetRootPost(new_root, sender, hcr, outcome) ==
    LET call == Call("set_root")
        pre == [banks |-> banks, root |-> root,
                last_snapshot_slot |-> last_snapshot_slot,
                last_accounts_hash_slot |-> last_accounts_hash_slot,
                squashed |-> squashed, panicked |-> NoPanic, lastCall |-> call]
    IN
    IF root \notin Keys THEN
        \* self.root_bank() indexes the map with the old root
        [pre EXCEPT !.panicked = "old root bank missing"]
    ELSE IF RootBank(new_root) = {} THEN
        [pre EXCEPT !.root = new_root,
                    !.panicked = "root bank didn't exist in bank_forks"]
    ELSE IF accounts_hash_interval_slots = 0 THEN
        \* the remainder by zero of the first candidate's test
        [pre EXCEPT !.root = new_root,
                    !.panicked = "remainder with a divisor of zero"]
    ELSE
      LET rb == CHOOSE b \in RootBank(new_root) : TRUE
          cands == Candidates(rb)
          due == FirstDue(cands)
          attempt == Attempts(due, sender)
          sent == Recorded(due, attempt, outcome)
          done == [call EXCEPT !.eligible = {b \in Range(cands) : IsDue(b)},
                               !.due = due,
                               !.squashed = SquashedBy(due, rb),
                               !.hashed = due,
                               !.snapshot = IF attempt THEN outcome ELSE "none",
                               !.sent = {SlotOf(b) : b \in sent}]
          hashedAt == HashMark(due, sent)
      IN
      IF attempt /\ \E d \in due : SlotOf(d) \notin Keys THEN
          \* generate_accounts_package looks the due slot up in the map
          [pre EXCEPT !.root = new_root,
                      !.last_accounts_hash_slot = hashedAt,
                      !.squashed = squashed \cup due,
                      !.panicked = "root must exist in BankForks",
                      !.lastCall = [done EXCEPT !.squashed = due, !.snapshot = "none",
                                                !.sent = {}]]
      ELSE
        LET snapshotAt == IF sent = {} THEN last_snapshot_slot
                          ELSE SlotOf(CHOOSE d \in sent : TRUE)
        IN
        IF PruneMissesEntry(new_root, hcr) THEN
            [pre EXCEPT !.root = new_root,
                        !.last_accounts_hash_slot = hashedAt,
                        !.last_snapshot_slot = snapshotAt,
                        !.squashed = squashed \cup SquashedBy(due, rb),
                        !.panicked = "descendants entry missing",
                        !.lastCall = done]
        ELSE
          LET kept == PruneNonRoot(new_root, hcr)
          IN [pre EXCEPT !.root = new_root,
                         !.last_accounts_hash_slot = hashedAt,
                         !.last_snapshot_slot = snapshotAt,
                         !.banks = kept,
                         !.squashed = Release(kept, squashed \cup SquashedBy(due, rb)),
                         !.lastCall = [done EXCEPT !.pruned = Keys \ DOMAIN kept]]

\* BankForks::set_root: the fields it writes
SetRootFields(new_root, sender, hcr, outcome) ==
    /\ panicked = NoPanic
    /\ \E post \in {SetRootPost(new_root, sender, hcr, outcome)} :
          /\ banks' = post.banks
          /\ root' = post.root
          /\ last_snapshot_slot' = post.last_snapshot_slot
          /\ last_accounts_hash_slot' = post.last_accounts_hash_slot
          /\ squashed' = post.squashed
          /\ frozen' = frozen \cap Alive(post.banks, post.squashed)
          /\ panicked' = post.panicked
          /\ lastCall' = post.lastCall
    /\ UNCHANGED <<snapshot_config, accounts_hash_interval_slots>>

\* BankForks::set_root
SetRoot(new_root, sender, hcr, outcome) ==
    /\ SetRootFields(new_root, sender, hcr, outcome)
    /\ UNCHANGED <<snapshot_failed, pc, frame, poolVars, copyVars>>

\* BankForks::set_root with the failed snapshots written down
SetRootRecording(new_root, sender, hcr, outcome) ==
    /\ SetRootFields(new_root, sender, hcr, outcome)
    /\ snapshot_failed' =
          IF lastCall'.snapshot \in {"write_failed", "send_failed"}
          THEN snapshot_failed \cup {SlotOf(b) : b \in lastCall'.due}
          ELSE snapshot_failed
    /\ UNCHANGED <<pc, frame, poolVars, copyVars>>

\* ------------------------------------------------ set_root, step by step
\* the start of set_root: the old root's checkpoint is looked up, self.root
\* is set, the new root's checkpoint is looked up and the banks vector built
SetRootBegin(new_root, sender, hcr, outcome) ==
    /\ pc = "idle"
    /\ panicked = NoPanic
    /\ lastCall' = Call("set_root")
    /\ IF root \notin Keys THEN
          /\ panicked' = "old root bank missing"
          /\ UNCHANGED <<root, pc, frame, poolVars, copyVars>>
       ELSE IF RootBank(new_root) = {} THEN
          /\ root' = new_root
          /\ panicked' = "root bank didn't exist in bank_forks"
          /\ UNCHANGED <<pc, frame, poolVars, copyVars>>
       ELSE
          /\ root' = new_root
          /\ pc' = "scan"
          /\ frame' = [new_root |-> new_root, sender |-> sender, hcr |-> hcr,
                       outcome |-> outcome,
                       todo |-> Candidates(CHOOSE b \in RootBank(new_root) : TRUE),
                       is_root_bank_squashed |-> FALSE,
                       whole |-> SetRootPost(new_root, sender, hcr, outcome)]
          /\ UNCHANGED panicked
    /\ UNCHANGED <<banks, snapshot_config, last_snapshot_slot,
                   accounts_hash_interval_slots, last_accounts_hash_slot, squashed,
                   frozen, snapshot_failed, poolVars, copyVars>>

\* a scan that looks at the same candidate again
RestStartingOver(todo) == todo

\* the candidates left once the loop has looked at the first one
Rest(todo) == Tail(todo)

\* one pass of the loop over the banks vector: what it leaves in the fields
\* it writes, and where the call goes on
ScanPost ==
    LET pre == [pc |-> "scan", frame |-> frame, panicked |-> NoPanic,
                last_accounts_hash_slot |-> last_accounts_hash_slot,
                last_snapshot_slot |-> last_snapshot_slot, squashed |-> squashed]
    IN
    IF frame.todo = <<>> THEN [pre EXCEPT !.pc = "squash_root"]
    ELSE IF accounts_hash_interval_slots = 0 THEN
        [pre EXCEPT !.pc = "idle", !.panicked = "remainder with a divisor of zero"]
    ELSE
      LET bank == Head(frame.todo)
          attempt == Attempts({bank}, frame.sender)
          sent == Recorded({bank}, attempt, frame.outcome)
          due == [pre EXCEPT !.last_accounts_hash_slot = SlotOf(bank),
                             !.squashed = squashed \cup {bank},
                             !.frame.is_root_bank_squashed =
                                 (SlotOf(bank) = frame.new_root)]
      IN
      IF ~IsDue(bank) THEN [pre EXCEPT !.frame.todo = Rest(frame.todo)]
      ELSE IF attempt /\ SlotOf(bank) \notin Keys THEN
          [due EXCEPT !.pc = "idle", !.panicked = "root must exist in BankForks"]
      ELSE
          \* break
          [due EXCEPT !.pc = "squash_root",
                      !.last_snapshot_slot =
                          IF sent = {} THEN last_snapshot_slot ELSE SlotOf(bank)]

\* one pass of the loop of set_root
ScanStep ==
    /\ pc = "scan"
    /\ \E post \in {ScanPost} :
          /\ pc' = post.pc
          /\ frame' = post.frame
          /\ panicked' = post.panicked
          /\ last_accounts_hash_slot' = post.last_accounts_hash_slot
          /\ last_snapshot_slot' = post.last_snapshot_slot
          /\ squashed' = post.squashed
    /\ UNCHANGED <<banks, root, snapshot_config, accounts_hash_interval_slots,
                   frozen, lastCall, snapshot_failed, poolVars, copyVars>>

\* the squash of the new root's checkpoint after the loop
SquashRootStep ==
    /\ pc = "squash_root"
    /\ squashed' = IF frame.is_root_bank_squashed THEN squashed
                   ELSE squashed \cup {banks[frame.new_root]}
    /\ pc' = "prune"
    /\ UNCHANGED <<banks, root, snapshot_config, last_snapshot_slot,
                   accounts_hash_interval_slots, last_accounts_hash_slot, frozen,
                   panicked, lastCall, snapshot_failed, frame, poolVars, copyVars>>

\* prune_non_root, after which set_root returns
PruneStep ==
    /\ pc = "prune"
    /\ pc' = "idle"
    /\ IF PruneMissesEntry(frame.new_root, frame.hcr) THEN
          /\ panicked' = "descendants entry missing"
          /\ UNCHANGED <<banks, squashed, frozen, frame>>
       ELSE
          /\ banks' = PruneNonRoot(frame.new_root, frame.hcr)
          /\ squashed' = Release(banks', squashed)
          /\ frozen' = frozen \cap Alive(banks', squashed')
          /\ frame' = NoFrame
          /\ UNCHANGED panicked
    /\ UNCHANGED <<root, snapshot_config, last_snapshot_slot,
                   accounts_hash_interval_slots, last_accounts_hash_slot, lastCall,
                   snapshot_failed, poolVars, copyVars>>

\* the steps of a running set_root call
SetRootStep == ScanStep \/ SquashRootStep \/ PruneStep

\* -------------------------------------------------------- transaction pool
\* The pool (txpool::Pool) keeps the transactions of each sender in a vector
\* ordered by Scoring::compare and the pooled hashes in a map.  To add a
\* transaction it searches the sender's vector with compare, appends when
\* the place found is the end, and otherwise asks Scoring::choose about the
\* transaction at that place.

\* MyScoring::compare with the operands the other way round
CompareReversed(old, other) ==
    IF other.nonce < old.nonce THEN "Less"
    ELSE IF other.nonce = old.nonce THEN "Equal" ELSE "Greater"

\* MyScoring::compare
Compare(old, other) ==
    IF old.nonce < other.nonce THEN "Less"
    ELSE IF old.nonce = other.nonce THEN "Equal" ELSE "Greater"

\* MyScoring::choose replacing at an equal gas price too
ChooseNotLower(old, new) ==
    IF old.nonce = new.nonce
    THEN IF new.gas_price >= old.gas_price THEN "ReplaceOld" ELSE "RejectNew"
    ELSE "InsertNew"

\* MyScoring::choose
Choose(old, new) ==
    IF old.nonce = new.nonce
    THEN IF new.gas_price > old.gas_price THEN "ReplaceOld" ELSE "RejectNew"
    ELSE "InsertNew"

\* the pooled hashes
ByHash(p) == UNION {Range(p[s]) : s \in Senders}

\* the place the search with compare finds for tx in a sender's vector: the
\* first transaction that is not Less, or the end
Place(txs, tx) ==
    IF \E i \in 1..Len(txs) : Compare(txs[i], tx) # "Less"
    THEN CHOOSE i \in 1..Len(txs) :
            /\ Compare(txs[i], tx) # "Less"
            /\ \A j \in 1..(i - 1) : Compare(txs[j], tx) = "Less"
    ELSE Len(txs) + 1

\* Pool::import as EthPool::import calls it: the pool it leaves and what it
\* returns.  A pooled hash is refused; a transaction refused by choose is
\* an error (TooCheapToReplace); the one a new transaction replaces leaves
\* the vector and the map of hashes.
PoolImport(p, tx) ==
    LET txs == p[tx.sender]
        i == Place(txs, tx)
    IN
    IF tx \in ByHash(p) THEN [pool |-> p, result |-> "already_imported"]
    ELSE IF i = Len(txs) + 1 THEN
        [pool |-> [p EXCEPT ![tx.sender] = Append(txs, tx)], result |-> "ok"]
    ELSE
        CASE Choose(txs[i], tx) = "RejectNew" ->
                [pool |-> p, result |-> "too_cheap"]
          [] Choose(txs[i], tx) = "InsertNew" ->
                [pool |-> [p EXCEPT ![tx.sender] =
                              SubSeq(txs, 1, i - 1) \o <<tx>> \o SubSeq(txs, i, Len(txs))],
                 result |-> "ok"]
          [] Choose(txs[i], tx) = "ReplaceOld" ->
                [pool |-> [p EXCEPT ![tx.sender] = [txs EXCEPT ![i] = tx]],
                 result |-> "replaced"]

\* Pool::remove(hash, false) as EthPool::remove calls it: nothing for a hash
\* that is not pooled, else the transaction, taken out of its sender's
\* vector
PoolRemove(p, hash) ==
    LET txs == p[hash.sender]
        i == Place(txs, hash)
    IN
    IF hash \notin ByHash(p) THEN [pool |-> p, removed |-> {}]
    ELSE [pool |-> [p EXCEPT ![hash.sender] =
                       SubSeq(txs, 1, i - 1) \o SubSeq(txs, i + 1, Len(txs))],
          removed |-> {hash}]

\* Pool::pending_from_sender with every transaction ready: the sender's
\* transactions in the order of the vector
PendingFromSender(p, sender) == p[sender]

\* EthPool::pending: the first transaction of Pool::pending, as a set (empty
\* for None).  The iteration starts with the first transaction of one of
\* the senders; which sender comes first is left open here.
Pending(p) == {Head(p[s]) : s \in {s \in Senders : p[s] # <<>>}}

\* the lookup of EthPool::remove_by_nonce, made under the lock: the hash of
\* the sender's transaction with the nonce, as a set
FindByNonce(p, sender, nonce) ==
    LET txs == PendingFromSender(p, sender)
    IN {txs[i] : i \in {i \in 1..Len(txs) : txs[i].sender = sender /\ txs[i].nonce = nonce}}

\* EthPool::transaction_count: the Option it returns, as a set.  The sum
\* nonce + 1 is a sum of U256, which fails on overflow.
TransactionCount(p, sender) ==
    LET txs == PendingFromSender(p, sender)
        nonces == {txs[i].nonce : i \in 1..Len(txs)}
    IN [value |-> IF nonces = {} \/ Max(nonces) = MaxNonce THEN {}
                  ELSE {Max(nonces) + 1},
        fatal |-> nonces # {} /\ Max(nonces) = MaxNonce]

\* a call of EthPool::import by a client of the bridge
Import(tx) ==
    /\ panicked = NoPanic
    /\ \E post \in {PoolImport(pool, tx)} :
          /\ pool' = post.pool
          /\ lastCall' = [Call("import") EXCEPT !.asked = <<tx.sender, tx.nonce>>,
                                                !.result = post.result]
    /\ UNCHANGED <<worker, hash_senders, panicked, bankVars, copyVars>>

\* a client makes a transaction with a channel of its own and imports it:
\* EthPool::import with the hash_sender kept track of.  When the import is
\* refused the transaction is dropped, and its channel with it.
Submit(tx) ==
    /\ panicked = NoPanic
    /\ tx \notin DOMAIN hash_senders
    /\ \E post \in {PoolImport(pool, tx)} :
          /\ pool' = post.pool
          /\ hash_senders' = IF post.result \in {"ok", "replaced"}
                             THEN (tx :> 0) @@ hash_senders
                             ELSE hash_senders
          /\ lastCall' = [Call("import") EXCEPT !.asked = <<tx.sender, tx.nonce>>,
                                                !.result = post.result]
    /\ UNCHANGED <<worker, panicked, bankVars, copyVars>>

\* a call of EthPool::remove by a client of the pool
RemoveCall(hash) ==
    /\ panicked = NoPanic
    /\ \E post \in {PoolRemove(pool, hash)} :
          /\ pool' = post.pool
          /\ lastCall' = [Call("remove_hash") EXCEPT !.result = post.removed]
    /\ UNCHANGED <<worker, hash_senders, panicked, bankVars, copyVars>>

\* a call of EthPool::pending by a client of the pool
PendingCall ==
    /\ panicked = NoPanic
    /\ lastCall' = [Call("pending") EXCEPT !.result = Pending(pool)]
    /\ UNCHANGED <<pool, worker, hash_senders, panicked, bankVars, copyVars>>

\* a call of EthPool::transaction_count by a client of the bridge
TransactionCountCall(sender) ==
    /\ panicked = NoPanic
    /\ \E res \in {TransactionCount(pool, sender)} :
          /\ panicked' = IF res.fatal THEN "arithmetic operation overflow" ELSE NoPanic
          /\ lastCall' = [Call("transaction_count") EXCEPT !.asked = sender,
                                                           !.result = res.value]
    /\ UNCHANGED <<pool, worker, hash_senders, bankVars, copyVars>>

\* worker_deploy takes the pending transaction, if there is one
WorkerPoll ==
    /\ panicked = NoPanic
    /\ worker.pc = "poll"
    /\ \E tx \in Pending(pool) :
          worker' = [NoWork EXCEPT !.pc = "deploy", !.tx = {tx}]
    /\ lastCall' = Call("worker_step")
    /\ UNCHANGED <<pool, hash_senders, panicked, bankVars, copyVars>>

\* process_tx returns and its result is sent on the transaction's hash_sender
WorkerDeploy(outcome) ==
    /\ panicked = NoPanic
    /\ worker.pc = "deploy"
    /\ worker' = [worker EXCEPT !.pc = "remove", !.outcome = outcome,
                                !.sends = worker.sends + 1]
    /\ hash_senders' = [tx \in DOMAIN hash_senders |->
                           IF tx \in worker.tx THEN hash_senders[tx] + 1
                           ELSE hash_senders[tx]]
    /\ lastCall' = Call("worker_step")
    /\ UNCHANGED <<pool, panicked, bankVars, copyVars>>

\* the end of an iteration of worker_deploy
Iteration == Call("worker_deploy")

\* bridge.pool.remove(&hash) in worker_deploy
WorkerRemove ==
    /\ panicked = NoPanic
    /\ worker.pc = "remove"
    /\ \E tx \in worker.tx : \E post \in {PoolRemove(pool, tx)} :
          /\ pool' = post.pool
          /\ IF post.removed # {}
             THEN worker' = NoWork /\ lastCall' = Iteration
             ELSE /\ worker' = [worker EXCEPT !.pc = "find"]
                  /\ lastCall' = Call("worker_step")
    /\ UNCHANGED <<hash_senders, panicked, bankVars, copyVars>>

\* the lookup of remove_by_nonce, under the lock
WorkerFind ==
    /\ panicked = NoPanic
    /\ worker.pc = "find"
    /\ \E tx \in worker.tx : \E found \in {FindByNonce(pool, tx.sender, tx.nonce)} :
          IF found = {}
          THEN worker' = NoWork /\ lastCall' = Iteration
          ELSE /\ worker' = [worker EXCEPT !.pc = "remove_found", !.found = found]
               /\ lastCall' = Call("worker_step")
    /\ UNCHANGED <<pool, hash_senders, panicked, bankVars, copyVars>>

\* the removal of remove_by_nonce, under the lock taken again
WorkerRemoveFound ==
    /\ panicked = NoPanic
    /\ worker.pc = "remove_found"
    /\ \E hash \in worker.found : pool' = PoolRemove(pool, hash).pool
    /\ worker' = NoWork
    /\ lastCall' = Iteration
    /\ UNCHANGED <<hash_senders, panicked, bankVars, copyVars>>

\* ------------------------------------------------------- block recovery
\* the block numbers from, from + 1, ... below to, ascending: the range
\* (from..to) the loop of repeat_evm iterates
RangeSeq(from, to) ==
    IF to <= from THEN <<>> ELSE [i \in 1..(to - from) |-> from + i - 1]

\* what is left of the routine's frame when it ends early: the sending half
\* is dropped with it
Ended(c, result) ==
    [c EXCEPT !.pc = "returned", !.result = result,
              !.sender = IF c.sender = "open" THEN "dropped" ELSE c.sender]

\* the steps of the routines leave the rest of the state alone
CopyFrame == UNCHANGED <<lastCall, panicked, bankVars, poolVars>>

\* repeat_evm up to its loop: the log line computes block_number + limit - 1
\* unless limit is 1, the writer task is spawned, and the range
\* block_number..block_number + limit is built
RepeatEvmBegin ==
    /\ copier.routine = "repeat_evm"
    /\ copier.pc = "begin"
    /\ LET sum == copier.first + copier.second
           logOverflows == copier.second # 1 /\ (sum > MaxBlock \/ sum = 0)
           to == sum % (MaxBlock + 1)
       IN IF copier.checks /\ logOverflows
          THEN copier' = Ended(copier, "panic")
          ELSE IF copier.checks /\ sum > MaxBlock
          THEN copier' = Ended([copier EXCEPT !.sender = "open", !.writer = "recv"],
                               "panic")
          ELSE copier' = [copier EXCEPT !.pc = "read",
                                        !.todo = RangeSeq(copier.first, to),
                                        !.sender = "open",
                                        !.writer = "recv"]
    /\ CopyFrame

\* the loop of repeat_evm reads the next block from the source; a failed
\* read ends the routine with the error
RepeatEvmRead(ok) ==
    /\ copier.routine = "repeat_evm"
    /\ copier.pc = "read"
    /\ copier.todo # <<>>
    /\ copier' =
          IF ok
          THEN [copier EXCEPT !.pc = "send",
                              !.block = {Head(copier.todo)},
                              !.read_ok = Append(copier.read_ok, Head(copier.todo))]
          ELSE Ended([copier EXCEPT !.read_err =
                                       Append(copier.read_err, Head(copier.todo))],
                     "Err")
    /\ CopyFrame

\* sender.send(..).await: waits for room in the channel
Send ==
    /\ copier.pc = "send"
    /\ Len(copier.channel) < CHANNEL_MAX_MESSAGES
    /\ \E b \in copier.block :
          copier' = [copier EXCEPT !.pc = "read",
                                   !.block = {},
                                   !.todo = Tail(copier.todo),
                                   !.channel = Append(copier.channel, b)]
    /\ CopyFrame

\* the loop is over: drop(sender)
DropSender ==
    /\ copier.pc = "read"
    /\ copier.todo = <<>>
    /\ copier' = [copier EXCEPT !.pc = "join", !.sender = "dropped"]
    /\ CopyFrame

\* the writer task of repeat_evm: receiver.recv().await gives a message
WriterRecv ==
    /\ copier.routine = "repeat_evm"
    /\ copier.writer = "recv"
    /\ copier.channel # <<>>
    /\ copier' = [copier EXCEPT !.writer = "upload",
                                !.uploading = {Head(copier.channel)},
                                !.channel = Tail(copier.channel)]
    /\ CopyFrame

\* the writer task of repeat_evm: dst.upload_evm_block returns
WriterUpload(ok) ==
    /\ copier.routine = "repeat_evm"
    /\ copier.writer = "upload"
    /\ \E b \in copier.uploading :
          copier' = [copier EXCEPT !.writer = "recv",
                                   !.uploading = {},
                                   !.attempts = Append(copier.attempts, b),
                                   !.failed = IF ok THEN copier.failed
                                              ELSE Append(copier.failed, b)]
    /\ CopyFrame

\* the writer task of repeat_evm: recv() gives None once the channel is
\* empty and the sender dropped, and the task ends
WriterEnd ==
    /\ copier.routine = "repeat_evm"
    /\ copier.writer = "recv"
    /\ copier.channel = <<>>
    /\ copier.sender = "dropped"
    /\ copier' = [copier EXCEPT !.writer = "ended"]
    /\ CopyFrame

\* writer.await returns once the task has ended, and the routine returns Ok
Join ==
    /\ copier.pc = "join"
    /\ copier.writer = "ended"
    /\ copier' = [copier EXCEPT !.pc = "returned", !.result = "Ok"]
    /\ CopyFrame

\* the slots of S in ascending order
Ascending(S) ==
    [i \in 1..Cardinality(S) |->
        CHOOSE x \in S : Cardinality({y \in S : y < x}) = i - 1]

\* the first n elements of v
Take(v, n) == [i \in 1..(IF n < Len(v) THEN n ELSE Len(v)) |-> v[i]]

\* src.get_confirmed_blocks(start_slot, limit): the slots of the source that
\* hold a block, from start_slot on, at most limit of them
GetConfirmedBlocks(start_slot, limit) ==
    Take(Ascending({s \in Range(copier.listing) : s >= start_slot}), limit)

\* the listing with the slots above end_slot filtered out
BlocksToRepeat(listed, end_slot) ==
    Ascending({s \in Range(listed) : s <= end_slot})

\* repeat_native up to its loop: the check of the arguments, limit, the
\* listing asked from the source and trimmed, the log line that reads
\* blocks_to_repeat[0], and the spawn of the writer task
RepeatNativeBegin(listed_ok) ==
    /\ copier.routine = "repeat_native"
    /\ copier.pc = "begin"
    /\ LET difference == copier.second - copier.first
           limit == (difference + 1) % (MaxBlock + 1)
           blocks_to_repeat ==
               BlocksToRepeat(GetConfirmedBlocks(copier.first, limit), copier.second)
       IN IF copier.second < copier.first THEN copier' = Ended(copier, "Err")
          ELSE IF copier.checks /\ difference + 1 > MaxBlock
          THEN copier' = Ended(copier, "panic")
          ELSE IF ~listed_ok THEN copier' = Ended(copier, "Err")
          ELSE IF blocks_to_repeat = <<>>
          THEN \* blocks_to_repeat[0] of an empty vector
               copier' = Ended(copier, "panic")
          ELSE copier' = [copier EXCEPT !.pc = "read",
                                        !.todo = blocks_to_repeat,
                                        !.sender = "open",
                                        !.writer = "spawned"]
    /\ CopyFrame

\* the loop of repeat_native reads the next block from the source; a failed
\* read is logged and the loop goes on
RepeatNativeRead(ok) ==
    /\ copier.routine = "repeat_native"
    /\ copier.pc = "read"
    /\ copier.todo # <<>>
    /\ copier' =
          IF ok
          THEN [copier EXCEPT !.pc = "send",
                              !.block = {Head(copier.todo)},
                              !.read_ok = Append(copier.read_ok, Head(copier.todo))]
          ELSE [copier EXCEPT !.todo = Tail(copier.todo),
                              !.read_err = Append(copier.read_err, Head(copier.todo))]
    /\ CopyFrame

\* the writer task of repeat_native: its async block builds the stream over
\* the receiver and the for_each_concurrent future, and ends with that
\* future as its value.  Nothing awaits the future, in the task or after
\* writer.await, so its closure, which uploads, never runs; the receiver
\* lives in it until the routine returns.
WriterReturnsFuture ==
    /\ copier.routine = "repeat_native"
    /\ copier.writer = "spawned"
    /\ copier' = [copier EXCEPT !.writer = "ended"]
    /\ CopyFrame

\* ------------------------------------------------------ leader schedule
\* ledger/src/leader_schedule_utils.rs: the stakers the leader schedule is
\* drawn from.  A staker is a pair <<pubkey, stake>>; pubkeys are numbers,
\* compared as the bytes of a Pubkey are.
MaxStakers == 3
MaxStake == 3
\* the two thresholds of solana_stake_program::stake_state, scaled down to
\* the stakes of the model
MIN_STAKERS_TO_BE_MAJORITY == 2
NUM_MAJOR_STAKERS_FOR_FILTERING == 2

Pubkeys == 1..MaxStakers
Stakes == 1..MaxStake
Stakers == Pubkeys \X Stakes
\* the vectors of stakers given to sort_stakes
StakeVecs == UNION {[1..n -> Stakers] : n \in 0..MaxStakers}

\* the closure given to sort_unstable_by comparing the stakes alone
LessByStakeOnly(l, r) == r[2] < l[2]

\* the closure given to sort_unstable_by answers Less: l goes before r when
\* its stake is higher, or at equal stakes when its pubkey is higher
Less(l, r) == IF r[2] = l[2] THEN r[1] < l[1] ELSE r[2] < l[2]

\* x put into the sorted vector v
RECURSIVE SortedInsert(_, _)
SortedInsert(x, v) ==
    IF v = <<>> THEN <<x>>
    ELSE IF Less(x, Head(v)) THEN <<x>> \o v
    ELSE <<Head(v)>> \o SortedInsert(x, Tail(v))

\* Vec::sort_unstable_by with the closure of sort_stakes: elements the
\* closure does not order are equal pairs, so any order of them is the same
\* vector
RECURSIVE SortUnstableBy(_)
SortUnstableBy(v) ==
    IF v = <<>> THEN <<>> ELSE SortedInsert(Head(v), SortUnstableBy(Tail(v)))

\* Vec::dedup: of each run of consecutive equal elements the first is kept
RECURSIVE Dedup(_)
Dedup(v) ==
    IF Len(v) <= 1 THEN v
    ELSE IF v[1] = v[2] THEN Dedup(Tail(v))
    ELSE <<v[1]>> \o Dedup(Tail(v))

sort_stakes(v) == Dedup(SortUnstableBy(v))

\* the count of all the stakers, whatever their stake
NumStakers(v) == Len(v)

num_major_stakers(v) ==
    Cardinality({i \in DOMAIN v : v[i][2] >= MIN_STAKERS_TO_BE_MAJORITY})

\* Vec::retain with the closure of retain_major_stakers
RECURSIVE retain_major_stakers(_)
retain_major_stakers(v) ==
    IF v = <<>> THEN <<>>
    ELSE IF Head(v)[2] >= MIN_STAKERS_TO_BE_MAJORITY
         THEN <<Head(v)>> \o retain_major_stakers(Tail(v))
         ELSE retain_major_stakers(Tail(v))

\* retain_sort_stakers on the vector the map was collected into
retain_sort_stakers(v) ==
    LET sorted == sort_stakes(v)
    IN IF num_major_stakers(sorted) >= NUM_MAJOR_STAKERS_FOR_FILTERING
       THEN retain_major_stakers(sorted)
       ELSE sorted

\* the vector is a HashMap collected in some order: no pubkey twice
IsCollectedMap(v) == \A i, j \in DOMAIN v : i # j => v[i][1] # v[j][1]

\* a call of sort_stakes on the vector drawn at the start
SortStakesCall ==
    /\ lastCall.op = "stakes"
    /\ lastCall' = [lastCall EXCEPT !.op = "sort_stakes",
                                    !.result = sort_stakes(lastCall.asked)]
    /\ UNCHANGED <<panicked, bankVars, poolVars, copyVars>>

\* a call of retain_sort_stakers on the map drawn at the start
RetainSortStakersCall ==
    /\ lastCall.op = "stakes"
    /\ IsCollectedMap(lastCall.asked)
    /\ lastCall' = [lastCall EXCEPT !.op = "retain_sort_stakers",
                                    !.result = retain_sort_stakers(lastCall.asked)]
    /\ UNCHANGED <<panicked, bankVars, poolVars, copyVars>>

\* ----------------------------------------------------------- specification
\* the highest_confirmed_root values that differ in effect for new root r:
\* one at or above r retains what None retains
ConfirmedRoots(r) == {None} \cup {h \in Slots : h < r}

\* whether set_root(r) with a sender would run generate_accounts_package
WouldAttempt(r) ==
    /\ root \in Keys
    /\ r \in Keys
    /\ accounts_hash_interval_slots # 0
    /\ Attempts(FirstDue(Candidates(banks[r])), TRUE)

\* a call of set_root: the sender is given or not, and when it is and a
\* snapshot is attempted, the snapshot write and the send succeed or fail
SetRootCall ==
    \E r \in Slots : \E hcr \in ConfirmedRoots(r) :
        \/ SetRoot(r, FALSE, hcr, "ok")
        \/ /\ WouldAttempt(r)
           /\ \E o \in SnapshotOutcomes : SetRoot(r, TRUE, hcr, o)

Next ==
    \/ \E p \in Slots, s \in Slots : Insert(p, s)
    \/ \E s \in Slots : Remove(s)
    \/ SetRootCall
    \/ \E c \in BOOLEAN : SetSnapshotConfig(c)
    \/ \E n \in Intervals : SetAccountsHashIntervalSlots(n)

Spec == Init /\ [][Next]_vars

\* the Fork DAG alone: construction, insert, remove and set_root without a
\* package sender.  The hashing interval stays at its default and no
\* snapshot is configured, so the scan of set_root finds nothing due; the
\* map, the root and the pruning are as in Spec.
NextDag ==
    \/ \E p \in Slots, s \in Slots : Insert(p, s)
    \/ \E s \in Slots : Remove(s)
    \/ \E r \in Slots : \E hcr \in ConfirmedRoots(r) : SetRoot(r, FALSE, hcr, "ok")

SpecDag == Init /\ [][NextDag]_vars

\* the Fork DAG with lookups by slot between the calls that change it
NextReads ==
    \/ NextDag
    \/ \E s \in Slots : GetCall(s)

SpecReads == Init /\ [][NextReads]_vars

\* new_from_banks(heads, r) on checkpoints of which any may be frozen, and
\* those with a child are
InitFrozen ==
    \E heads \in HeadSeqs : \E r \in Slots :
        /\ NewFields(heads, r)
        /\ frozen \in {f \in SUBSET Alive(banks, {}) : HaveChild(Alive(banks, {})) \subseteq f}

\* the Fork DAG with its queries called between the calls that change it,
\* and checkpoints freezing as their replay completes
NextQueries ==
    \/ NextDag
    \/ \E s \in Slots : Freeze(s)
    \/ \E q \in Queries : QueryCall(q)
    \/ \E s \in Slots : GetCall(s)

SpecQueries == InitFrozen /\ [][NextQueries]_vars

\* new_from_banks(heads, r) with r the slot of a checkpoint it stores
InitRootPresent ==
    \E heads \in HeadSeqs : \E r \in DOMAIN NewFromBanks(<<>>, heads) :
        NewState(heads, r)

\* the calls of P3: insert of a slot not yet present and set_root of a slot
\* that is present, under any snapshot configuration and hashing interval
NextInsertSetRoot ==
    \/ \E p \in Slots, s \in Slots \ Keys : Insert(p, s)
    \/ /\ \E r \in Keys : \E hcr \in ConfirmedRoots(r) :
            \/ SetRoot(r, FALSE, hcr, "ok")
            \/ /\ WouldAttempt(r)
               /\ \E o \in SnapshotOutcomes : SetRoot(r, TRUE, hcr, o)
    \/ \E c \in BOOLEAN : SetSnapshotConfig(c)
    \/ \E n \in Intervals : SetAccountsHashIntervalSlots(n)

SpecInsertSetRoot == InitRootPresent /\ [][NextInsertSetRoot]_vars

\* the snapshot life of the Fork DAG: new_from_banks with the root stored,
\* insert of absent slots, set_root of present slots with the snapshot
\* configuration and the hashing interval set at will, and every failed
\* snapshot written down.  set_root is called without a confirmed root:
\* highest_confirmed_root only decides which slots below the root stay in
\* the map, and the scan walks the parent links, not the map.
NextSnapshots ==
    \/ \E p \in Slots, s \in Slots \ Keys : Insert(p, s)
    \/ \E r \in Keys : \E hcr \in {None} :
          \/ SetRootRecording(r, FALSE, hcr, "ok")
          \/ /\ WouldAttempt(r)
             /\ \E o \in SnapshotOutcomes : SetRootRecording(r, TRUE, hcr, o)
    \/ \E c \in BOOLEAN : SetSnapshotConfig(c)
    \/ \E n \in Intervals \ {0} : SetAccountsHashIntervalSlots(n)

SpecSnapshots == InitRootPresent /\ [][NextSnapshots]_vars

\* the Fork DAG with the hashing interval left as new_from_banks set it:
\* insert, remove, set_root with and without a package sender, and the
\* snapshot configuration set at will.  A snapshot that is attempted
\* succeeds, so that it shows in last_snapshot_slot.
NextDefaultInterval ==
    \/ \E p \in Slots, s \in Slots : Insert(p, s)
    \/ \E s \in Slots : Remove(s)
    \/ \E r \in Slots : \E hcr \in ConfirmedRoots(r) :
          \E sender \in BOOLEAN : SetRoot(r, sender, hcr, "ok")
    \/ \E c \in BOOLEAN : SetSnapshotConfig(c)

SpecDefaultInterval == Init /\ [][NextDefaultInterval]_vars

\* set_root run step by step: insert of absent slots, set_root of present
\* slots and the two setters, called when no set_root is running (the calls
\* change the BankForks, which its one owner lends to one call at a time)
NextSteps ==
    \/ pc = "idle" /\ \E p \in Slots, s \in Slots \ Keys : Insert(p, s)
    \/ \E r \in Keys : \E hcr \in ConfirmedRoots(r) :
          \/ SetRootBegin(r, FALSE, hcr, "ok")
          \/ /\ WouldAttempt(r)
             /\ \E o \in SnapshotOutcomes : SetRootBegin(r, TRUE, hcr, o)
    \/ ScanStep
    \/ SquashRootStep
    \/ PruneStep
    \/ pc = "idle" /\ \E c \in BOOLEAN : SetSnapshotConfig(c)
    \/ pc = "idle" /\ \E n \in Intervals : SetAccountsHashIntervalSlots(n)

\* a running set_root call takes its next step: nothing preempts it for good
SpecSteps == InitRootPresent /\ [][NextSteps]_vars /\ WF_vars(SetRootStep)

\* an empty pool, beside a BankForks that holds genesis and is left alone
InitBridge == NewState(<<{0}>>, 0)

\* the transactions the clients submit: sender "a" one for each nonce and
\* gas price and a second one at the lowest price, sender "b" one for each
\* nonce
Submitted ==
    {tx \in PooledTransactions :
        \/ tx.input = "x" /\ (tx.sender = "a" \/ tx.gas_price = 1)
        \/ tx.input = "y" /\ tx.sender = "a" /\ tx.gas_price = 1}

\* the pool of the bridge: clients import transactions and ask for a
\* sender's transaction count while worker_deploy takes the pending
\* transactions one by one
NextBridge ==
    \/ \E tx \in Submitted : Import(tx)
    \/ \E s \in Senders : TransactionCountCall(s)
    \/ WorkerPoll
    \/ \E o \in {"ok", "err"} : WorkerDeploy(o)
    \/ WorkerRemove
    \/ WorkerFind
    \/ WorkerRemoveFound

SpecBridge == InitBridge /\ [][NextBridge]_vars

\* a step of worker_deploy
WorkerStep ==
    \/ WorkerPoll
    \/ \E o \in {"ok", "err"} : WorkerDeploy(o)
    \/ WorkerRemove
    \/ WorkerFind
    \/ WorkerRemoveFound

\* the transactions submitted while the worker runs: one of sender "a" at
\* nonce 0 for each gas price, so that each can replace the cheaper ones, one
\* of sender "a" at the next nonce, and one of sender "b"
Offered ==
    {tx \in Submitted :
        /\ tx.input = "x"
        /\ tx.nonce = 0 \/ (tx.sender = "a" /\ tx.nonce = 1 /\ tx.gas_price = 1)
        /\ tx.sender = "a" \/ tx.gas_price = 1}

\* the pool with the deploy worker running: clients submit transactions,
\* each of them once, and the worker, a task of the runtime that is never left waiting for
\* good, takes its next step whenever it has one
NextDeploy ==
    \/ \E tx \in Offered : Submit(tx)
    \/ WorkerPoll
    \/ \E o \in {"ok", "err"} : WorkerDeploy(o)
    \/ WorkerRemove
    \/ WorkerFind
    \/ WorkerRemoveFound

SpecDeploy == InitBridge /\ [][NextDeploy]_vars /\ WF_vars(WorkerStep)

\* a Fork DAG of genesis alone and an empty pool, which the calls of the
\* other components leave as they are
Quiet(call, run) ==
    /\ banks = NewFromBanks(<<>>, <<{0}>>)
    /\ root = 0
    /\ snapshot_config = FALSE
    /\ last_snapshot_slot = 0
    /\ accounts_hash_interval_slots = NeverInterval
    /\ last_accounts_hash_slot = 0
    /\ squashed = {}
    /\ frozen = {}
    /\ panicked = NoPanic
    /\ lastCall = call
    /\ snapshot_failed = {}
    /\ pc = "idle"
    /\ frame = NoFrame
    /\ pool = EmptyPool
    /\ worker = NoWork
    /\ hash_senders = <<>>
    /\ copier = run

\* repeat_evm called with any block number and limit, in either build
InitRepeatEvm ==
    \E block_number \in Blocks, limit \in Blocks, checks \in BOOLEAN :
        Quiet(Call("repeat_evm"), Run("repeat_evm", block_number, limit, <<>>, checks))

\* the reader loop and the writer task of repeat_evm run side by side; the
\* reads and the uploads succeed or fail
NextRepeatEvm ==
    \/ RepeatEvmBegin
    \/ \E ok \in BOOLEAN : RepeatEvmRead(ok)
    \/ Send
    \/ DropSender
    \/ WriterRecv
    \/ \E ok \in BOOLEAN : WriterUpload(ok)
    \/ WriterEnd
    \/ Join

SpecRepeatEvm == InitRepeatEvm /\ [][NextRepeatEvm]_vars

\* repeat_native called with any two slots, in either build, on a source
\* that holds blocks at any set of slots
InitRepeatNative ==
    \E start_slot \in Blocks, end_slot \in Blocks, checks \in BOOLEAN :
        \E held \in SUBSET Blocks :
            Quiet(Call("repeat_native"),
                  Run("repeat_native", start_slot, end_slot, Ascending(held), checks))

\* the reader loop and the writer task of repeat_native; the listing and the
\* reads succeed or fail
NextRepeatNative ==
    \/ \E ok \in BOOLEAN : RepeatNativeBegin(ok)
    \/ \E ok \in BOOLEAN : RepeatNativeRead(ok)
    \/ Send
    \/ DropSender
    \/ WriterReturnsFuture
    \/ Join

SpecRepeatNative == InitRepeatNative /\ [][NextRepeatNative]_vars

\* the stakers: a vector of stakers is drawn, and sort_stakes or
\* retain_sort_stakers is applied to it
InitStakes ==
    \E v \in StakeVecs : Quiet([Call("stakes") EXCEPT !.asked = v], NoCopy)

NextStakes ==
    \/ SortStakesCall
    \/ RetainSortStakersCall

SpecStakes == InitStakes /\ [][NextStakes]_vars

\* the pool by itself: imports, removals by hash and pending() in any order
NextPool ==
    \/ \E tx \in Submitted : Import(tx)
    \/ \E tx \in Submitted : RemoveCall(tx)
    \/ PendingCall

SpecPool == InitBridge /\ [][NextPool]_vars

\* ------------------------------------------------------------------ claims
\* a set_root call ran to its end and produced this state
SetRootDone == lastCall.op = "set_root" /\ panicked = NoPanic

\* C1: starting with root a key of banks, after every insert of a slot not
\* yet present and every set_root of a slot that is present (any
\* highest_confirmed_root, any snapshot outcome), root is a key of banks.
\* The calls are those of SpecInsertSetRoot.
C1_RootPresentAfterInsertSetRoot == root \in DOMAIN banks

\* a root advance that pruned the old root away and whose snapshot failed
C1_Witness ==
    /\ SetRootDone
    /\ lastCall.snapshot = "write_failed"
    /\ 0 \in lastCall.pruned
    /\ root = 1
    /\ Keys = {1}

C3_DuplicateInsertLeavesBanks ==
    [][panicked' = "duplicate insert" => banks' = banks]_vars

\* slot s is a descendant of slot r: r is on the chain of the checkpoint
\* stored at s, below it
IsDescendant(s, r) == r \in banks[s] /\ r # SlotOf(banks[s])

\* the slots C4 says set_root(r, _, hcr) leaves in banks
C4Kept(r, hcr) ==
    {s \in Keys :
        \/ s = r
        \/ IsDescendant(s, r)
        \/ /\ s < r
           /\ s >= (IF hcr = None THEN r ELSE hcr)
           /\ IsDescendant(r, s)}

\* C4: after a completed set_root(new_root, sink, hcr) the keys of banks are
\* exactly the pre-call slots that are new_root, a descendant of new_root,
\* or below new_root, at or above hcr (new_root when hcr is absent) and an
\* ancestor of new_root.
C4_PruneKeepsExactly ==
    [][\A hcr \in OptSlots :
          (/\ lastCall'.op = "set_root"
           /\ panicked' = NoPanic
           /\ \E sender \in BOOLEAN, o \in SnapshotOutcomes :
                 SetRoot(root', sender, hcr, o))
          => Keys' = C4Kept(root', hcr)]_vars

\* set_root(1) without a confirmed root on 0 -> {1, 2}: only 1 is left
C4_Witness ==
    /\ SetRootDone
    /\ root = 1
    /\ Keys = {1}
    /\ banks[1] = {0, 1}
    /\ lastCall.pruned = {0, 2}

\* C5 as stated: for all keys p and c of banks, c is in descendants()[p]
\* exactly when p is in ancestors()[c].
C5_AdjacencyDuality ==
    \A p \in Keys, c \in Keys : (c \in descendants[p]) <=> (p \in ancestors[c])

\* C6 as stated: ancestors()[slot(b)] is the set of slots on b's chain that
\* are strictly below slot(b), not below root, and keys of banks.
C6_AncestorsAreKeptChain ==
    \A s \in Keys :
        ancestors[s] = {k \in banks[s] : k < SlotOf(banks[s]) /\ k >= root /\ k \in Keys}

\* C7: descendants() has an entry for every key of banks, so the lookups of
\* prune_non_root never miss one.
C7_DescendantsCoverKeys ==
    /\ Keys \subseteq DOMAIN descendants
    /\ panicked # "descendants entry missing"

\* a completed set_root that pruned with a leaf in banks: the leaf's entry
\* is there and empty
C7_Witness ==
    /\ SetRootDone
    /\ Keys = {1, 2}
    /\ root = 1
    /\ descendants[2] = {}

\* C8: across every step last_accounts_hash_slot and last_snapshot_slot
\* never decrease.
C8_HighWaterMarksNeverDecrease ==
    [][/\ last_accounts_hash_slot' >= last_accounts_hash_slot
       /\ last_snapshot_slot' >= last_snapshot_slot]_vars

\* a set_root that found slot 2 due and sent its package: both marks moved
C8_Witness ==
    /\ SetRootDone
    /\ lastCall.sent = {2}
    /\ last_accounts_hash_slot = 2
    /\ last_snapshot_slot = 2

\* the candidates of set_root(root') that pass the cadence test before the
\* call: the new root's checkpoint and its parent chain
EligibleBefore == {b \in Range(Candidates(banks[root'])) : IsDue(b)}

\* the eligible candidate with the highest slot
Newest(S) == CHOOSE b \in S : \A c \in S : SlotOf(c) <= SlotOf(b)

\* C9: when several candidates of a set_root call pass the cadence test,
\* only the one with the highest slot is accounted: last_accounts_hash_slot
\* becomes its slot, it alone has its accounts hash recomputed, and the
\* older eligible ones are neither hashed nor squashed in this call.
C9_OnlyNewestEligibleAccounted ==
    [][(lastCall'.op = "set_root" /\ panicked' = NoPanic)
       => LET eligible == EligibleBefore
              newest == Newest(eligible)
          IN eligible # {}
             => /\ last_accounts_hash_slot' = SlotOf(newest)
                /\ lastCall'.hashed = {newest}
                /\ lastCall'.squashed \cap eligible = {newest}]_vars

\* a completed set_root that had two eligible candidates and hashed one
C9_Witness ==
    /\ SetRootDone
    /\ Cardinality(lastCall.eligible) >= 2
    /\ Cardinality(lastCall.hashed) = 1
    /\ last_accounts_hash_slot = 2

\* C10: when no candidate passes the cadence test, set_root squashes the new
\* root's checkpoint, leaves both high-water marks as they were, recomputes
\* no accounts hash and sends no package.
C10_NothingDueSquashesRootOnly ==
    [][(/\ lastCall'.op = "set_root"
        /\ panicked' = NoPanic
        /\ EligibleBefore = {})
       => /\ lastCall'.squashed = {banks[root']}
          /\ banks[root'] \in squashed'
          /\ last_accounts_hash_slot' = last_accounts_hash_slot
          /\ last_snapshot_slot' = last_snapshot_slot
          /\ lastCall'.hashed = {}
          /\ lastCall'.sent = {}]_vars

\* a completed set_root onto block height 1 with the interval at 2 and
\* snapshots configured: nothing was due
C10_Witness ==
    /\ SetRootDone
    /\ snapshot_config
    /\ accounts_hash_interval_slots = 2
    /\ root = 1
    /\ lastCall.eligible = {}
    /\ lastCall.squashed = {banks[1]}
    /\ banks[1] \in squashed

C14_SquashedOnce ==
    [][lastCall'.op = "set_root" => lastCall'.squashed \cap squashed = {}]_vars

\* the two ways generate_accounts_package returns an error
SnapshotFailures == {"write_failed", "send_failed"}

\* C12: for a set_root call that attempts a snapshot, the fields left when
\* the snapshot write or the send fails are those left when it succeeds
\* (root, banks after pruning, last_accounts_hash_slot, the checkpoints
\* squashed), except that last_snapshot_slot keeps its value; the call
\* completes without a fatal error.
C12_SnapshotFailureOnlySkipsMark ==
    panicked = NoPanic =>
        \A r \in Keys : WouldAttempt(r) =>
            \A hcr \in ConfirmedRoots(r), o \in SnapshotFailures :
                \A failed \in {SetRootPost(r, TRUE, hcr, o)},
                   ok \in {SetRootPost(r, TRUE, hcr, "ok")} :
                    failed.lastCall.snapshot = o =>
                        /\ failed.panicked = NoPanic
                        /\ ok.panicked = NoPanic
                        /\ ok.last_snapshot_slot # last_snapshot_slot
                        /\ failed.last_snapshot_slot = last_snapshot_slot
                        /\ failed.root = ok.root
                        /\ failed.banks = ok.banks
                        /\ failed.last_accounts_hash_slot = ok.last_accounts_hash_slot
                        /\ failed.squashed = ok.squashed
                        /\ failed.lastCall.squashed = ok.lastCall.squashed
                        /\ failed.lastCall.pruned = ok.lastCall.pruned

\* a set_root whose send failed: the root moved to 2, slots were pruned, the
\* hash mark moved and the snapshot mark did not
C12_Witness ==
    /\ SetRootDone
    /\ lastCall.snapshot = "send_failed"
    /\ root = 2
    /\ lastCall.pruned # {}
    /\ last_accounts_hash_slot = 2
    /\ last_snapshot_slot < 2

\* C13: set_root attempts a snapshot only when snapshot_config is present, a
\* sender is given and a checkpoint is due; last_snapshot_slot becomes the
\* due checkpoint's slot exactly when the write and the send succeeded, and
\* is unchanged in every other case.
C13_SnapshotMarkOnlyOnSuccess ==
    (panicked = NoPanic /\ root \in Keys /\ accounts_hash_interval_slots # 0) =>
        \A r \in Keys, sender \in BOOLEAN, o \in SnapshotOutcomes :
            \A hcr \in ConfirmedRoots(r) :
                \A post \in {SetRootPost(r, sender, hcr, o)},
                   eligible \in {{b \in Range(Candidates(banks[r])) : IsDue(b)}} :
                    post.panicked = NoPanic =>
                        /\ post.lastCall.snapshot # "none"
                              <=> (snapshot_config /\ sender /\ eligible # {})
                        /\ post.last_snapshot_slot =
                              IF snapshot_config /\ sender /\ eligible # {} /\ o = "ok"
                              THEN SlotOf(Newest(eligible))
                              ELSE last_snapshot_slot

\* a set_root that sent the package of slot 1: the snapshot mark is 1
C13_Witness ==
    /\ SetRootDone
    /\ lastCall.snapshot = "ok"
    /\ lastCall.sent = {1}
    /\ root = 1
    /\ last_snapshot_slot = 1

\* C15: set_root of a slot that is no key of banks fails fatally, and at the
\* failure nothing has been squashed or pruned, nothing sent, and both marks
\* are as before.
C15_AbsentRootFailsBeforeAnyEffect ==
    panicked = NoPanic =>
        \A r \in Slots \ Keys, sender \in BOOLEAN, o \in SnapshotOutcomes :
            \A hcr \in ConfirmedRoots(r) :
                \A post \in {SetRootPost(r, sender, hcr, o)} :
                    /\ post.panicked # NoPanic
                    /\ post.banks = banks
                    /\ post.squashed = squashed
                    /\ post.last_accounts_hash_slot = last_accounts_hash_slot
                    /\ post.last_snapshot_slot = last_snapshot_slot
                    /\ post.lastCall.squashed = {}
                    /\ post.lastCall.hashed = {}
                    /\ post.lastCall.sent = {}
                    /\ post.lastCall.pruned = {}

\* set_root(2) failed on a map without slot 2 while a hash was due at the
\* interval of 1 and snapshots were configured
C15_Witness ==
    /\ lastCall.op = "set_root"
    /\ panicked = "root bank didn't exist in bank_forks"
    /\ root = 2
    /\ Keys = {0, 1}
    /\ accounts_hash_interval_slots = 1
    /\ snapshot_config
    /\ squashed = {}

\* C16: get of a slot that is no key of banks returns the absent value, does
\* not fail, and leaves banks, root, the marks and every other field as they
\* were.
C16_GetOfAbsentSlotIsNone ==
    [][(lastCall'.op = "get" /\ lastCall'.asked \notin Keys)
       => /\ lastCall'.found = {}
          /\ panicked' = NoPanic
          /\ UNCHANGED <<banks, root, snapshot_config, last_snapshot_slot,
                         accounts_hash_interval_slots, last_accounts_hash_slot,
                         squashed>>]_vars

\* get(0) after set_root(1) pruned slot 0: nothing found, no failure
C16_Witness ==
    /\ lastCall.op = "get"
    /\ lastCall.asked = 0
    /\ lastCall.found = {}
    /\ panicked = NoPanic
    /\ root = 1
    /\ Keys = {1, 2}
    /\ banks[1] \in squashed

C19_DefaultIntervalNeverDue ==
    /\ lastCall.op = "new_from_banks"
          => /\ accounts_hash_interval_slots = NeverInterval
             /\ last_accounts_hash_slot = root
             /\ last_snapshot_slot = root
    /\ [][/\ UNCHANGED <<last_accounts_hash_slot, last_snapshot_slot,
                         accounts_hash_interval_slots>>
          /\ lastCall'.op = "set_root"
                => /\ lastCall'.eligible = {}
                   /\ lastCall'.hashed = {}
                   /\ lastCall'.snapshot = "none"
                   /\ lastCall'.sent = {}]_vars

\* a completed set_root onto genesis, block height 0, with snapshots
\* configured and the default interval: nothing hashed, nothing sent
C19_Witness ==
    /\ SetRootDone
    /\ snapshot_config
    /\ accounts_hash_interval_slots = NeverInterval
    /\ root = 0
    /\ lastCall.squashed = {{0}}
    /\ lastCall.hashed = {}
    /\ lastCall.sent = {}

\* the heads in another order
Reordered(heads, p) == [i \in DOMAIN heads |-> heads[p[i]]]

\* C20: right after new_from_banks(heads, root) the keys of banks are exactly
\* the slots of the heads and of their whole parent chains, each key maps to
\* the checkpoint of that slot on a head's chain, and every order of the
\* heads gives the same map.
C20_NewFromBanksCoversChains ==
    lastCall.op = "new_from_banks" =>
        /\ Keys = UNION Range(lastCall.heads)
        /\ \A s \in Keys : \E h \in Range(lastCall.heads) :
              s \in h /\ banks[s] = {k \in h : k <= s}
        /\ \A p \in Permutations(DOMAIN lastCall.heads) :
              NewFromBanks(<<>>, Reordered(lastCall.heads, p)) = banks

\* new_from_banks given the head at slot 2 and then its parent at slot 1 as
\* a second head: the walk from the second head stops at once
C20_Witness ==
    /\ lastCall.op = "new_from_banks"
    /\ lastCall.heads = <<{0, 1, 2}, {0, 1}>>
    /\ Keys = {0, 1, 2}

\* C21: ancestors, descendants, frozen_banks, active_banks, get, root_bank,
\* root, highest_slot and working_bank leave banks, root, snapshot_config,
\* accounts_hash_interval_slots, last_accounts_hash_slot and
\* last_snapshot_slot as they were, and the same query called again in the
\* state the call left returns what the call returned.
C21_QueriesReadOnlyAndRepeatable ==
    [][(lastCall'.op \in Queries \cup {"get"})
       => /\ UNCHANGED <<banks, root, snapshot_config, accounts_hash_interval_slots,
                         last_accounts_hash_slot, last_snapshot_slot>>
          /\ \A q \in Queries :
                lastCall'.op = q => QueryPost(q)'.value = lastCall'.result
          /\ \A s \in Slots :
                (lastCall'.op = "get" /\ lastCall'.asked = s)
                   => Get(s)'.found = lastCall'.found]_vars

\* frozen_banks() called on 0 -> 1 with slot 1 still being replayed and the
\* root advanced to 0: it returned the entry of slot 0
C21_Witness ==
    /\ lastCall.op = "frozen_banks"
    /\ panicked = NoPanic
    /\ lastCall.result = (0 :> {0})
    /\ Keys = {0, 1}
    /\ {0} \in squashed

\* what C22 says of a state: the highest slot is a key and no key is above
\* it, and the working bank is the checkpoint stored there
HighestIsMaxKey ==
    Keys # {} =>
        /\ highest_slot \in Keys
        /\ \A k \in Keys : k <= highest_slot
        /\ \E s \in Keys :
              /\ working_bank = banks[s]
              /\ \A k \in Keys : k <= s

\* C22: whenever banks is non-empty, highest_slot() is the maximum key of
\* banks and working_bank() the checkpoint stored at it; after the insert of
\* a child at a slot above every existing one, working_bank() is that child.
C22_WorkingBankIsHighest ==
    [][/\ HighestIsMaxKey
       /\ HighestIsMaxKey'
       /\ (lastCall'.op = "insert" /\ panicked' = NoPanic)
             => \A s \in Keys' \ Keys :
                   (\A k \in Keys : k < s)
                      => /\ working_bank' = banks'[s]
                         /\ ParentOf(working_bank') \in Range(banks)
                         /\ highest_slot' = s]_vars

\* slot 2 inserted as a child of slot 0 beside its sibling at slot 1, which
\* is still being replayed: the working bank is the new child
C22_Witness ==
    /\ lastCall.op = "insert"
    /\ panicked = NoPanic
    /\ Keys = {0, 1, 2}
    /\ banks[1] = {0, 1}
    /\ working_bank = {0, 2}
    /\ {0, 1} \notin frozen

\* C23: in every state frozen_banks() and active_banks() partition the keys
\* of banks: each key is in exactly one of them, in frozen_banks exactly
\* when its checkpoint is frozen, and neither holds a slot that is no key;
\* frozen_banks() maps each of its slots to the checkpoint stored there.
C23_FrozenActivePartition ==
    /\ DOMAIN frozen_banks \cup active_banks = Keys
    /\ DOMAIN frozen_banks \cap active_banks = {}
    /\ \A s \in Keys : (s \in DOMAIN frozen_banks) <=> (banks[s] \in frozen)
    /\ \A s \in DOMAIN frozen_banks : frozen_banks[s] = banks[s]
    /\ lastCall.op = "frozen_banks" => DOMAIN lastCall.result \subseteq Keys
    /\ lastCall.op = "active_banks" => lastCall.result \subseteq Keys

\* active_banks() returned slots 1 and 2 of 0 -> {1, 2} before either was
\* frozen, with slot 0 frozen by the creation of its children
C23_Witness ==
    /\ lastCall.op = "active_banks"
    /\ lastCall.result = {1, 2}
    /\ DOMAIN frozen_banks = {0}
    /\ Keys = {0, 1, 2}

\* what C24 says of remove in a state: remove(slot) leaves the other
\* entries as they are, and returns the checkpoint get(slot) finds
RemoveTakesOnlyItsSlot ==
    \A slot \in Slots : \A post \in {RemovePost(slot)} :
        /\ DOMAIN post.banks = Keys \ {slot}
        /\ \A k \in Keys \ {slot} : post.banks[k] = banks[k]
        /\ post.removed = Get(slot).found

\* C24: insert of a checkpoint at a slot not in banks adds exactly that
\* slot, and get(slot) finds nothing before and the inserted checkpoint
\* after; remove(slot) deletes at most that slot and returns the removed
\* checkpoint or the absent value; both leave every other entry of banks,
\* root, last_accounts_hash_slot and last_snapshot_slot unchanged.
C24_InsertRemoveTouchOneSlot ==
    [][/\ RemoveTakesOnlyItsSlot
       /\ RemoveTakesOnlyItsSlot'
       /\ (lastCall'.op = "insert" /\ panicked' = NoPanic)
             => \E slot \in Slots \ Keys :
                   /\ Keys' = Keys \cup {slot}
                   /\ Get(slot).found = {}
                   /\ Get(slot)'.found = {banks'[slot]}
                   /\ SlotOf(banks'[slot]) = slot
                   /\ ParentOf(banks'[slot]) \in Range(banks)
                   /\ \A k \in Keys : banks'[k] = banks[k]
       /\ lastCall'.op = "remove"
             => \E slot \in Slots : banks' = RemovePost(slot).banks
       /\ lastCall'.op \in {"insert", "remove"}
             => UNCHANGED <<root, last_accounts_hash_slot,
                            last_snapshot_slot>>]_vars

\* remove(1) on the chain 0 -> 1 -> 2: slots 0 and 2 are left, the
\* checkpoint at 2 is the one built on slot 1
C24_Witness ==
    /\ lastCall.op = "remove"
    /\ Keys = {0, 2}
    /\ banks[2] = {0, 1, 2}
    /\ Get(1).found = {}
    /\ root = 0

\* the fields a set_root call run step by step has left at its end are
\* those of the call taken as one step
StepsAgreeWithSetRoot ==
    [][(pc # "idle" /\ pc' = "idle")
       => /\ banks' = frame.whole.banks
          /\ root' = frame.whole.root
          /\ last_snapshot_slot' = frame.whole.last_snapshot_slot
          /\ last_accounts_hash_slot' = frame.whole.last_accounts_hash_slot
          /\ squashed' = frame.whole.squashed
          /\ panicked' = frame.whole.panicked]_vars

\* C25: every set_root call with new_root in banks comes to its end,
\* whether or not a checkpoint is due and whether the snapshot write or the
\* send succeeds or fails: no step of it waits or goes back.
C25_SetRootTerminates == (pc # "idle") ~> (pc = "idle")

\* a set_root call run step by step has returned after a failed snapshot of
\* slot 2, with the root at 2 and the older slots pruned
C25_Witness ==
    /\ pc = "idle"
    /\ lastCall.op = "set_root"
    /\ panicked = NoPanic
    /\ root = 2
    /\ Keys = {2}
    /\ last_accounts_hash_slot = 2
    /\ last_snapshot_slot < 2
    /\ snapshot_config

\* the pooled transactions of p with the sender and nonce of tx
SameNonce(p, tx) ==
    {old \in ByHash(p) : old.sender = tx.sender /\ old.nonce = tx.nonce}

\* C26: the import of a transaction with the sender and nonce of a pooled
\* one replaces the pooled one exactly when the new gas price is strictly
\* higher and is refused otherwise; either way the pool then holds exactly
\* one transaction for that sender and nonce, the one with the higher gas
\* price (the pooled one at equal prices), and the other transactions are
\* as before.
C26_ReplaceOnlyAtHigherGasPrice ==
    \A tx \in PooledTransactions : \A old \in SameNonce(pool, tx) :
        \A post \in {PoolImport(pool, tx)} :
            /\ post.result = "replaced" <=> tx.gas_price > old.gas_price
            /\ post.result # "replaced"
                  => /\ post.result \in {"too_cheap", "already_imported"}
                     /\ post.pool = pool
            /\ SameNonce(post.pool, tx) =
                  {IF tx.gas_price > old.gas_price THEN tx ELSE old}
            /\ post.result = "replaced"
                  => ByHash(post.pool) = (ByHash(pool) \ {old}) \cup {tx}

\* an import has replaced the transaction of sender "a" at nonce 0 by one
\* with gas price 3, beside the one at nonce 1
C26_Witness ==
    /\ lastCall.op = "import"
    /\ lastCall.result = "replaced"
    /\ Len(pool["a"]) = 2
    /\ pool["a"][1].nonce = 0
    /\ pool["a"][1].gas_price = 3
    /\ pool["b"] # <<>>

\* C27 as stated: when the transaction pending() gave is replaced before it
\* is removed, remove(hash of the original) returns None and leaves the
\* pool as it is, and remove_by_nonce(sender, nonce) removes the
\* replacement, after which the pool holds no transaction for that sender
\* and nonce.
C27_ReplacedIsRemovedByNonce ==
    [][\A tx \in worker.tx :
          /\ (worker.pc = "remove" /\ worker'.pc # "remove" /\ tx \notin ByHash(pool))
                => pool' = pool /\ worker'.pc = "find"
          /\ (worker.pc \in {"find", "remove_found"} /\ worker'.pc = "poll")
                => SameNonce(pool', tx) = {}]_vars

\* C28: the transactions of each sender are pending in ascending nonce
\* order, whatever the order of their import, and the transaction pending()
\* returns is the lowest-nonce pooled transaction of its sender.
C28_PendingInNonceOrder ==
    /\ \A s \in Senders :
          LET txs == PendingFromSender(pool, s)
          IN /\ \A i, j \in 1..Len(txs) : i < j => txs[i].nonce < txs[j].nonce
             /\ Range(txs) = {tx \in ByHash(pool) : tx.sender = s}
    /\ \A tx \in Pending(pool) :
          \A other \in ByHash(pool) : other.sender = tx.sender => tx.nonce <= other.nonce

\* the transaction of sender "a" at nonce 0 was imported after the one at
\* nonce 1: it is before it in the sender's order and the one pending()
\* returns
C28_Witness ==
    /\ lastCall.op = "import"
    /\ lastCall.asked = <<"a", 0>>
    /\ lastCall.result = "ok"
    /\ Len(pool["a"]) = 2
    /\ pool["a"][1].nonce = 0
    /\ pool["a"][2].nonce = 1
    /\ pool["b"] = <<>>
    /\ Pending(pool) = {pool["a"][1]}

\* C29 as stated: in each iteration of worker_deploy that finds a pending
\* transaction exactly one result is sent on its hash_sender, and when the
\* iteration ends the pool holds no transaction with its sender and nonce,
\* whether the deploy succeeded or failed and whether or not the transaction
\* was replaced meanwhile.
C29_IterationClearsNonce ==
    [][(worker.pc \in {"remove", "find", "remove_found"} /\ worker'.pc = "poll")
       => /\ worker.sends = 1
          /\ worker.outcome \in {"ok", "err"}
          /\ \A tx \in worker.tx :
                \A t \in ByHash(pool') : ~(t.sender = tx.sender /\ t.nonce = tx.nonce)]_vars

\* C30 as stated: transaction_count(sender) returns None when the pool
\* holds no transaction of the sender and otherwise the highest pooled
\* nonce of the sender plus one.
C30_TransactionCountIsNextNonce ==
    lastCall.op = "transaction_count" =>
        LET nonces == {tx.nonce : tx \in {tx \in ByHash(pool) : tx.sender = lastCall.asked}}
        IN /\ panicked = NoPanic
           /\ lastCall.result = IF nonces = {} THEN {} ELSE {Max(nonces) + 1}

\* C35: in every reachable state last_snapshot_slot <= last_accounts_hash_slot,
\* and last_snapshot_slot only moves in a set_root call, to the slot that
\* the same call has just recorded as last_accounts_hash_slot and whose
\* package it sent.
C35_SnapshotMarkNeverAheadOfHashMark ==
    [][/\ last_snapshot_slot <= last_accounts_hash_slot
       /\ last_snapshot_slot' <= last_accounts_hash_slot'
       /\ last_snapshot_slot' # last_snapshot_slot
             => /\ lastCall'.op = "set_root"
                /\ last_accounts_hash_slot' # last_accounts_hash_slot
                /\ last_snapshot_slot' = last_accounts_hash_slot'
                /\ lastCall'.sent = {last_snapshot_slot'}
                /\ lastCall'.hashed = {banks[last_snapshot_slot']}]_vars

\* a set_root onto slot 2, a child of genesis, found it due and sent its
\* package: both marks are at 2
C35_Witness ==
    /\ SetRootDone
    /\ root = 2
    /\ banks[2] = {0, 2}
    /\ lastCall.hashed = {{0, 2}}
    /\ lastCall.sent = {2}
    /\ last_snapshot_slot = 2
    /\ last_accounts_hash_slot = 2

\* C36: a set_root call sends at most one package, however many checkpoints
\* on the new root's chain are due, and each package sent is for a slot
\* strictly above that of the package sent before it (last_snapshot_slot,
\* which only a sent package moves): no slot is packaged twice.
C36_PackagesStrictlyIncreasing ==
    [][/\ lastCall'.op = "set_root"
             => /\ Cardinality(lastCall'.sent) <= 1
                /\ \A s \in lastCall'.sent :
                      /\ s > last_snapshot_slot
                      /\ last_snapshot_slot' = s
                /\ lastCall'.sent = {} => last_snapshot_slot' = last_snapshot_slot
       /\ lastCall'.op # "set_root" => last_snapshot_slot' = last_snapshot_slot]_vars

\* two checkpoints of the new root's chain were due, at slots 1 and 2: the
\* call sent the package of slot 2 alone
C36_Witness ==
    /\ SetRootDone
    /\ Cardinality(lastCall.eligible) = 2
    /\ lastCall.sent = {2}
    /\ last_snapshot_slot = 2
    /\ banks[2] = {0, 1, 2}

\* C37 as stated: whatever value set_accounts_hash_interval_slots was given,
\* 0 included, a set_root call with new_root in banks completes without a
\* fatal error.
C37_SetRootCompletesForEveryInterval ==
    [][(lastCall'.op = "set_root" /\ root' \in Keys /\ root \in Keys)
       => panicked' = NoPanic]_vars

\* ------------------------------------------- generate_accounts_package
\* generate_accounts_package sending the package before the snapshot files
\* are written
GenerateAccountsPackageSendingFirst(slot, outcome) ==
    [written |-> IF outcome = "write_failed" THEN {} ELSE {slot},
     sent |-> IF outcome = "send_failed" THEN {} ELSE {slot},
     result |-> IF outcome = "ok" THEN "Ok" ELSE "Err"]

\* BankForks::generate_accounts_package for the checkpoint at slot:
\* add_snapshot writes the snapshot files and package_snapshot packages
\* them, each returning early with its error ("write_failed"); then the
\* package is sent, which fails when the receiver is gone ("send_failed").
\* written: the slots whose files were written and packaged; sent: the slots
\* whose package the sink received.
GenerateAccountsPackage(slot, outcome) ==
    [written |-> IF outcome = "write_failed" THEN {} ELSE {slot},
     sent |-> IF outcome = "ok" THEN {slot} ELSE {},
     result |-> IF outcome = "ok" THEN "Ok" ELSE "Err"]

\* C39: when set_root runs generate_accounts_package for the due checkpoint,
\* a package is on the sink only if the snapshot files of that slot were
\* written and packaged; when writing or packaging fails nothing is sent;
\* when the send fails the call returns an error, which set_root shows by
\* leaving last_snapshot_slot where it was.
C39_PackageSentOnlyAfterFilesWritten ==
    (lastCall.op = "set_root" /\ lastCall.snapshot # "none") =>
        \A d \in lastCall.due :
            \A g \in {GenerateAccountsPackage(SlotOf(d), lastCall.snapshot)} :
                /\ lastCall.sent = g.sent
                /\ g.sent \subseteq g.written
                /\ lastCall.snapshot = "write_failed"
                      => g.written = {} /\ g.sent = {} /\ g.result = "Err"
                /\ lastCall.snapshot = "send_failed"
                      => g.written = {SlotOf(d)} /\ g.sent = {} /\ g.result = "Err"
                /\ g.result = "Err" <=> last_snapshot_slot # SlotOf(d)
                /\ g.result = "Ok" <=> g.sent = {SlotOf(d)}

\* the files of slot 1 were written and the send failed: nothing is on the
\* sink and the snapshot mark is still at genesis
C39_Witness ==
    /\ SetRootDone
    /\ lastCall.snapshot = "send_failed"
    /\ lastCall.due = {{0, 1}}
    /\ lastCall.sent = {}
    /\ last_snapshot_slot = 0
    /\ last_accounts_hash_slot = 1

\* C38 as stated: with the deploy worker scheduled fairly, every transaction
\* successfully imported eventually has exactly one result sent on its own
\* hash_sender, and never more than one, also when it came in by replacing
\* the transaction the worker was processing.
C38_EveryImportedGetsItsResult ==
    /\ [](\A tx \in DOMAIN hash_senders : hash_senders[tx] <= 1)
    /\ \A tx \in Offered :
          (tx \in DOMAIN hash_senders)
             ~> (tx \in DOMAIN hash_senders /\ hash_senders[tx] = 1)

\* C33: retain_sort_stakers returns exactly the stakers of the map whose
\* stake is at least MIN_STAKERS_TO_BE_MAJORITY when at least
\* NUM_MAJOR_STAKERS_FOR_FILTERING of them have such a stake, and every
\* staker of the map when fewer do, each of them once, whatever the order
\* the map is collected in.  The map is moved into the call: the caller
\* keeps a clone or nothing, and no map is written to.
C33_MajorStakersRetained ==
    lastCall.op = "retain_sort_stakers" =>
        LET given == Range(lastCall.asked)
            major == {s \in given : s[2] >= MIN_STAKERS_TO_BE_MAJORITY}
            kept == lastCall.result
        IN /\ Range(kept) =
                 IF Cardinality(major) >= NUM_MAJOR_STAKERS_FOR_FILTERING
                 THEN major ELSE given
           /\ Len(kept) = Cardinality(Range(kept))
           /\ \A p \in Permutations(DOMAIN lastCall.asked) :
                 retain_sort_stakers(Reordered(lastCall.asked, p)) = kept

\* three stakers, two of them with a majority stake: the third is dropped
C33_Witness ==
    /\ lastCall.op = "retain_sort_stakers"
    /\ Len(lastCall.asked) = 3
    /\ lastCall.result = <<<<2, 3>>, <<1, 2>>>>
    /\ <<3, 1>> \in Range(lastCall.asked)

\* C34: sort_stakes returns the entries it was given, each once, ordered by
\* stake descending and at equal stakes by pubkey descending, and returns
\* the same vector for every order of the entries given.
C34_SortStakesOrdersAndDedups ==
    lastCall.op = "sort_stakes" =>
        LET out == lastCall.result
        IN /\ Range(out) = Range(lastCall.asked)
           /\ \A i, j \in DOMAIN out :
                 i < j => \/ out[i][2] > out[j][2]
                          \/ out[i][2] = out[j][2] /\ out[i][1] > out[j][1]
           /\ \A p \in Permutations(DOMAIN lastCall.asked) :
                 sort_stakes(Reordered(lastCall.asked, p)) = out

\* the entry <<1, 1>> given twice, with <<2, 1>> between the two: one of
\* them is left, after <<2, 1>>
C34_Witness ==
    /\ lastCall.op = "sort_stakes"
    /\ lastCall.asked = <<<<1, 1>>, <<2, 1>>, <<1, 1>>>>
    /\ lastCall.result = <<<<2, 1>>, <<1, 1>>>>

\* the block numbers of [block_number, block_number + limit), ascending
IntervalSeq(block_number, limit) == [i \in 1..limit |-> block_number + i - 1]

IsPrefix(p, q) == Len(p) <= Len(q) /\ \A i \in DOMAIN p : p[i] = q[i]

\* C31 as stated: when no read from the source fails, the uploads
\* repeat_evm(block_number, limit) attempts are those of the block numbers of
\* [block_number, block_number + limit), each once and in ascending order,
\* and when it returns every one of them has been attempted, the channel is
\* closed and empty and the writer task has ended.
C31_RepeatEvmUploadsTheInterval ==
    (copier.routine = "repeat_evm" /\ copier.read_err = <<>>) =>
        /\ IsPrefix(copier.attempts, IntervalSeq(copier.first, copier.second))
        /\ copier.pc = "returned"
              => /\ copier.result = "Ok"
                 /\ copier.attempts = IntervalSeq(copier.first, copier.second)
                 /\ copier.channel = <<>>
                 /\ copier.sender = "dropped"
                 /\ copier.writer = "ended"

\* C32 as stated: repeat_native(start_slot, end_slot) with start_slot <=
\* end_slot, on a source whose listing succeeds, returns Ok for every
\* listing, an empty one included, and when it returns the uploads attempted
\* are those of the listed slots <= end_slot whose read succeeded, each
\* once; a failed read does not end the copy.
C32_RepeatNativeUploadsTheListing ==
    (/\ copier.routine = "repeat_native"
     /\ copier.first <= copier.second
     /\ copier.pc = "returned"
     /\ copier.result # "Err") =>
        /\ copier.result = "Ok"
        /\ Len(copier.attempts) = Len(copier.read_ok)
        /\ Range(copier.attempts) = Range(copier.read_ok)
        /\ Range(copier.read_ok) \cup Range(copier.read_err) =
              {s \in Range(copier.listing) :
                  s >= copier.first /\ s <= copier.second}

====
